---- MODULE Spec2Model ----
(***************************************************************************)
(* Login-System: the authentication / lockout / reset-token subsystem.     *)
(*                                                                         *)
(* Python strings are sequences of one-character strings, so that strip,   *)
(* lower, upper, split and the "in" test are computed and not assumed.     *)
(* time.time() and datetime.utcnow() read one clock, now, in whole         *)
(* seconds.  A dict is a function whose DOMAIN is its set of keys.         *)
(***************************************************************************)
EXTENDS Integers, Sequences, FiniteSets, TLC

VARIABLES
    now,               \* the clock read by time.time() / datetime.utcnow()
    lockout_manager,   \* LoginScreen.lockout_manager: failed_attempts, lockout_expiry
    last,              \* the last call made on the tracker and what it returned
    streak,            \* per identity: increment calls since the last recordSuccess
    last_failure_at,   \* per identity: the clock at the last increment call
    users,             \* the users table of the Data Store
    is_logging_in,     \* LoginScreen._is_logging_in
    timer_active,      \* LoginScreen._login_timer is armed
    pending_username,  \* LoginScreen._pending_username
    pending_password,  \* LoginScreen._pending_password
    input_username,    \* LoginScreen.input_username.text()
    modal,             \* the handler waiting in a QMessageBox call, and its local
    shown,             \* what the last handler showed or emitted, and its input
    db_calls,          \* the Data Store calls the last handler made, in order
    tokens,            \* the password_reset_tokens table of the Data Store
    password_changes,  \* per token record: password changes it authorised (capped)
    thread_pc,         \* per thread: the line of increment_failed_attempts it is at
    thread_username,   \* per thread: the username argument of its call
    thread_attempts,   \* per thread: the local variable attempts
    calls_completed,   \* per identity: increment_failed_attempts calls returned
    hasher,            \* a password, the salt drawn, hash_password's and verify_password's results
    generator          \* a generate_reset_code call: its module, the random draws, its result

tracker_vars == <<lockout_manager, last, streak, last_failure_at>>
tracker_history == <<last, streak, last_failure_at>>
attempt_vars == <<is_logging_in, timer_active, pending_username, pending_password>>
login_vars == <<attempt_vars, input_username, modal>>
thread_vars == <<thread_pc, thread_username, thread_attempts, calls_completed>>
function_vars == <<hasher, generator>>
vars == <<now, lockout_manager, last, streak, last_failure_at, users,
          is_logging_in, timer_active, pending_username, pending_password,
          input_username, modal, shown, db_calls, tokens, password_changes,
          thread_pc, thread_username, thread_attempts, calls_completed,
          hasher, generator>>

(***************************************************************************)
(* Bounds of the model.                                                    *)
(***************************************************************************)
MaxTime == 604
MaxLoginTime == 303
MaxDrift == 3
MaxStreak == 4
NumThreads == 2
MaxCalls == 4
MaxTokens == 2
MaxPlainLen == 3
MaxChangesCounted == 2
TickSteps == {150, 151}
MaxResetTime == 301
MaxElapsed == 1
ResetTickSteps == {300, 301}
\* the shortest step of the clock between two handlers
TickQuantum == CHOOSE d \in TickSteps : \A e \in TickSteps : d <= e

(***************************************************************************)
(* Strings.                                                                *)
(***************************************************************************)
ascii_uppercase ==
    <<"A","B","C","D","E","F","G","H","I","J","K","L","M",
      "N","O","P","Q","R","S","T","U","V","W","X","Y","Z">>
ascii_lowercase ==
    <<"a","b","c","d","e","f","g","h","i","j","k","l","m",
      "n","o","p","q","r","s","t","u","v","w","x","y","z">>
digits == <<"0","1","2","3","4","5","6","7","8","9">>
\* the characters str.strip() removes that a string of this module can hold:
\* U+0009..U+000D, U+001C..U+001F, U+0020, U+0085 and U+00A0.  (str.isspace()
\* is also true of U+1680, U+2000..U+200A, U+2028, U+2029, U+202F, U+205F and
\* U+3000, which cannot be written in a string here.)
chr_0b == ""
chr_1c == ""
chr_1d == ""
chr_1e == ""
chr_1f == ""
chr_85 == ""
chr_a0 == " "
whitespace ==
    {"\t", "\n", chr_0b, "\f", "\r", chr_1c, chr_1d, chr_1e, chr_1f, " ",
     chr_85, chr_a0}

Range(s) == {s[i] : i \in DOMAIN s}
IndexOf(s, c) == CHOOSE i \in DOMAIN s : s[i] = c

\* the case mappings of str.lower() and str.upper(), as tables: the letters
\* of ASCII and of U+00C0..U+00FF.  A character that cannot be written in a
\* string here stands as its escape: "\\u0178" is U+0178, one character.
to_lower ==
    LET uppercase ==
            ascii_uppercase \o
            <<"À", "Á", "Â", "Ã", "Ä", "Å", "Æ", "Ç", "È", "É",
              "Ê", "Ë", "Ì", "Í", "Î", "Ï", "Ð", "Ñ", "Ò", "Ó",
              "Ô", "Õ", "Ö", "Ø", "Ù", "Ú", "Û", "Ü", "Ý", "Þ">>
        lowercase ==
            ascii_lowercase \o
            <<"à", "á", "â", "ã", "ä", "å", "æ", "ç", "è", "é",
              "ê", "ë", "ì", "í", "î", "ï", "ð", "ñ", "ò", "ó",
              "ô", "õ", "ö", "ø", "ù", "ú", "û", "ü", "ý", "þ">>
    IN  [c \in Range(uppercase) \cup {"\\u0178", "\\u039c"} |->
            IF c \in Range(uppercase) THEN lowercase[IndexOf(uppercase, c)]
            ELSE IF c = "\\u0178" THEN "ÿ" ELSE "\\u03bc"]
\* str.upper() of one character is a text: U+00DF gives two characters
to_upper ==
    [c \in {to_lower[u] : u \in DOMAIN to_lower} \cup {"ß", "µ"} |->
        IF c = "ß" THEN <<"S", "S">>
        ELSE IF c = "µ" THEN <<"\\u039c">>
        ELSE <<CHOOSE u \in DOMAIN to_lower : to_lower[u] = c>>]
lower_char(c) == IF c \in DOMAIN to_lower THEN to_lower[c] ELSE c
upper_char(c) == IF c \in DOMAIN to_upper THEN to_upper[c] ELSE <<c>>

lower(s) == [i \in 1..Len(s) |-> lower_char(s[i])]
RECURSIVE upper(_)
upper(s) == IF s = <<>> THEN <<>> ELSE upper_char(Head(s)) \o upper(Tail(s))

RECURSIVE lstrip(_)
lstrip(s) ==
    IF s # <<>> /\ Head(s) \in whitespace THEN lstrip(Tail(s)) ELSE s
RECURSIVE rstrip(_)
rstrip(s) ==
    IF s # <<>> /\ s[Len(s)] \in whitespace
    THEN rstrip(SubSeq(s, 1, Len(s) - 1)) ELSE s
strip(s) == rstrip(lstrip(s))

\* str.split(sep) for a one-character separator: the pieces between separators
RECURSIVE split(_, _)
split(s, sep) ==
    IF \A i \in DOMAIN s : s[i] # sep THEN <<s>>
    ELSE LET k == CHOOSE i \in DOMAIN s :
                      s[i] = sep /\ \A j \in 1..(i - 1) : s[j] # sep
         IN  <<SubSeq(s, 1, k - 1)>> \o split(SubSeq(s, k + 1, Len(s)), sep)

(***************************************************************************)
(* Credential hasher (utils/auth.py).                                      *)
(***************************************************************************)
hexdigits == <<"0","1","2","3","4","5","6","7","8","9","a","b","c","d","e","f">>
\* the printable ASCII characters in code order, U+0020 to U+007E without
\* U+0060, which cannot be written in a string here
CharTable ==
    <<" ", "!", "\"", "#", "$", "%", "&", "'", "(", ")", "*", "+",
      ",", "-", ".", "/", "0", "1", "2", "3", "4", "5", "6", "7",
      "8", "9", ":", ";", "<", "=", ">", "?", "@", "A", "B", "C",
      "D", "E", "F", "G", "H", "I", "J", "K", "L", "M", "N", "O",
      "P", "Q", "R", "S", "T", "U", "V", "W", "X", "Y", "Z", "[",
      "\\", "]", "^", "_", "a", "b", "c", "d", "e", "f", "g", "h",
      "i", "j", "k", "l", "m", "n", "o", "p", "q", "r", "s", "t",
      "u", "v", "w", "x", "y", "z", "{", "|", "}", "~">>

\* bytes.hex(): two hex digits per byte
hex_byte(b) == <<hexdigits[(b \div 16) + 1], hexdigits[(b % 16) + 1]>>
RECURSIVE hex_bytes(_)
hex_bytes(bs) ==
    IF bs = <<>> THEN <<>> ELSE hex_byte(Head(bs)) \o hex_bytes(Tail(bs))

\* secrets.token_hex(n) over the n random bytes drawn
token_hex(random_bytes) == hex_bytes(random_bytes)

\* ord(c), for the printable ASCII characters and the whitespace characters
char_code ==
    [c \in Range(CharTable) \cup whitespace |->
        IF c \in Range(CharTable)
        THEN (IF IndexOf(CharTable, c) <= 64 THEN 31 ELSE 32) + IndexOf(CharTable, c)
        ELSE CASE c = "\t" -> 9 [] c = "\n" -> 10 [] c = chr_0b -> 11
               [] c = "\f" -> 12 [] c = "\r" -> 13 [] c = chr_1c -> 28
               [] c = chr_1d -> 29 [] c = chr_1e -> 30 [] c = chr_1f -> 31
               [] c = chr_85 -> 133 [] c = chr_a0 -> 160]
\* str.encode(): the UTF-8 bytes, one below U+0080 and two below U+0800
RECURSIVE encode(_)
encode(x) ==
    IF x = <<>> THEN <<>>
    ELSE IF Len(x) = 1
    THEN LET cp == char_code[x[1]]
         IN  IF cp < 128 THEN <<cp>>
             ELSE <<192 + (cp \div 64), 128 + (cp % 64)>>
    ELSE LET mid == Len(x) \div 2
         IN  encode(SubSeq(x, 1, mid)) \o encode(SubSeq(x, mid + 1, Len(x)))

(***************************************************************************)
(* hashlib.sha256(...).hexdigest(): SHA-256 of FIPS 180-4.  A 32-bit word  *)
(* is a pair <<high 16 bits, low 16 bits>>, and the bitwise operations are *)
(* read from four-bit tables.                                              *)
(***************************************************************************)
Bit(n, k) == (n \div (2 ^ k)) % 2
Xor4 == [i \in 0..15 |-> [j \in 0..15 |->
            ((Bit(i, 0) + Bit(j, 0)) % 2) + 2 * ((Bit(i, 1) + Bit(j, 1)) % 2)
            + 4 * ((Bit(i, 2) + Bit(j, 2)) % 2) + 8 * ((Bit(i, 3) + Bit(j, 3)) % 2)]]
And4 == [i \in 0..15 |-> [j \in 0..15 |->
            (Bit(i, 0) * Bit(j, 0)) + 2 * (Bit(i, 1) * Bit(j, 1))
            + 4 * (Bit(i, 2) * Bit(j, 2)) + 8 * (Bit(i, 3) * Bit(j, 3))]]
TwoTo == [n \in 0..16 |-> 2 ^ n]

\* a 16-bit half is combined four bits at a time through a four-bit table
bitwise(table, x, y) ==
    LET half(a, b) ==
            table[a \div 4096][b \div 4096] * 4096
            + table[(a \div 256) % 16][(b \div 256) % 16] * 256
            + table[(a \div 16) % 16][(b \div 16) % 16] * 16
            + table[a % 16][b % 16]
    IN  <<half(x[1], y[1]), half(x[2], y[2])>>
XOR(x, y) == bitwise(Xor4, x, y)
AND(x, y) == bitwise(And4, x, y)
NOT(x) == <<65535 - x[1], 65535 - x[2]>>
\* addition modulo 2^32: the carry of the low halves goes to the high halves
ADD(x, y) ==
    LET carry(hi, lo) == <<(hi + (lo \div 65536)) % 65536, lo % 65536>>
    IN  carry(x[1] + y[1], x[2] + y[2])
\* rotate right by n, 0 < n < 32
ROTR(x, n) ==
    LET Rot16(w, k) ==
            <<(w[1] \div TwoTo[k]) + (w[2] % TwoTo[k]) * TwoTo[16 - k],
              (w[2] \div TwoTo[k]) + (w[1] % TwoTo[k]) * TwoTo[16 - k]>>
    IN  IF n = 16 THEN <<x[2], x[1]>>
        ELSE Rot16(IF n < 16 THEN x ELSE <<x[2], x[1]>>, n % 16)
\* shift right by n, 0 < n < 16
SHR(x, n) ==
    <<x[1] \div TwoTo[n],
      (x[2] \div TwoTo[n]) + (x[1] % TwoTo[n]) * TwoTo[16 - n]>>

Ch(x, y, z) == XOR(AND(x, y), AND(NOT(x), z))
Maj(x, y, z) == XOR(XOR(AND(x, y), AND(x, z)), AND(y, z))
BigSigma0(x) == XOR(XOR(ROTR(x, 2), ROTR(x, 13)), ROTR(x, 22))
BigSigma1(x) == XOR(XOR(ROTR(x, 6), ROTR(x, 11)), ROTR(x, 25))
SmallSigma0(x) == XOR(XOR(ROTR(x, 7), ROTR(x, 18)), SHR(x, 3))
SmallSigma1(x) == XOR(XOR(ROTR(x, 17), ROTR(x, 19)), SHR(x, 10))

sha256_K ==
  <<
    <<17034, 12184>>, <<28983, 17553>>, <<46528, 64463>>, <<59829, 56229>>,
    <<14678, 49755>>, <<23025, 4593>>, <<37439, 33444>>, <<43804, 24277>>,
    <<55303, 43672>>, <<4739, 23297>>, <<9265, 34238>>, <<21772, 32195>>,
    <<29374, 23924>>, <<32990, 45566>>, <<39900, 1703>>, <<49563, 61812>>,
    <<58523, 27073>>, <<61374, 18310>>, <<4033, 40390>>, <<9228, 41420>>,
    <<11753, 11375>>, <<19060, 33962>>, <<23728, 43484>>, <<30457, 35034>>,
    <<38974, 20818>>, <<43057, 50797>>, <<45059, 10184>>, <<48985, 32711>>,
    <<50912, 3059>>, <<54695, 37191>>, <<1738, 25425>>, <<5161, 10599>>,
    <<10167, 2693>>, <<11803, 8504>>, <<19756, 28156>>, <<21304, 3347>>,
    <<25866, 29524>>, <<30314, 2747>>, <<33218, 51502>>, <<37490, 11397>>,
    <<41663, 59553>>, <<43034, 26187>>, <<49739, 35696>>, <<51052, 20899>>,
    <<53650, 59417>>, <<54937, 1572>>, <<62478, 13701>>, <<4202, 41072>>,
    <<6564, 49430>>, <<7735, 27656>>, <<10056, 30540>>, <<13488, 48309>>,
    <<14620, 3251>>, <<20184, 43594>>, <<23452, 51791>>, <<26670, 28659>>,
    <<29839, 33518>>, <<30885, 25455>>, <<33992, 30740>>, <<36039, 520>>,
    <<37054, 65530>>, <<42064, 27883>>, <<48889, 41975>>, <<50801, 30962>>
  >>
sha256_H0 ==
  <<
    <<27145, 58983>>, <<47975, 44677>>, <<15470, 62322>>, <<42319, 62778>>,
    <<20750, 21119>>, <<39685, 26764>>, <<8067, 55723>>, <<23520, 52505>>
  >>
\* the message bytes, 0x80, zero bytes up to 56 mod 64, the bit length in 8 bytes
sha256_pad(bytes) ==
    LET n == Len(bytes)
        zeros == (119 - n) % 64
        bits_hi == n \div 8192
        bits_lo == (n % 8192) * 8
    IN  bytes \o <<128>> \o [i \in 1..zeros |-> 0] \o <<0, 0, 0, 0, 0, bits_hi % 256>>
        \o <<bits_lo \div 256, bits_lo % 256>>
RECURSIVE sha256_schedule(_)
sha256_schedule(W) ==
    IF Len(W) = 64 THEN W
    ELSE LET t == Len(W) + 1
         IN  sha256_schedule(Append(W,
                 ADD(ADD(SmallSigma1(W[t - 2]), W[t - 7]),
                     ADD(SmallSigma0(W[t - 15]), W[t - 16]))))
\* one round: the working variables a..h are s[1]..s[8]
sha256_round(s, W, t) ==
    LET step(T1, T2) ==
            <<ADD(T1, T2), s[1], s[2], s[3], ADD(s[4], T1), s[5], s[6], s[7]>>
    IN  step(ADD(ADD(ADD(s[8], BigSigma1(s[5])),
                     ADD(Ch(s[5], s[6], s[7]), sha256_K[t])), W[t]),
             ADD(BigSigma0(s[1]), Maj(s[1], s[2], s[3])))
\* rounds from..to in order; the state after the first half is bound once
RECURSIVE sha256_rounds(_, _, _, _)
sha256_rounds(s, W, from, to) ==
    IF from = to THEN sha256_round(s, W, from)
    ELSE CHOOSE r \in {sha256_rounds(m, W, ((from + to) \div 2) + 1, to) :
                        m \in {sha256_rounds(s, W, from, (from + to) \div 2)}} : TRUE
\* block b of the padded message as sixteen big-endian words, its schedule,
\* the 64 rounds, and the sum with the hash value before the block
sha256_compress(h, padded, b) ==
    LET add_words(s) == [i \in 1..8 |-> ADD(h[i], s[i])]
    IN  add_words(sha256_rounds(h, sha256_schedule(
            [t \in 1..16 |->
                <<padded[64 * b + 4 * t - 3] * 256 + padded[64 * b + 4 * t - 2],
                  padded[64 * b + 4 * t - 1] * 256 + padded[64 * b + 4 * t]>>]),
            1, 64))
\* the hash value after blocks b, b + 1, ... of the padded message
RECURSIVE sha256_blocks(_, _, _)
sha256_blocks(h, padded, b) ==
    IF 64 * b >= Len(padded) THEN h
    ELSE CHOOSE r \in {sha256_blocks(next, padded, b + 1) :
                        next \in {sha256_compress(h, padded, b)}} : TRUE
\* hashlib.sha256(bytes).hexdigest(): the eight words of the final hash value
\* as 32 bytes, high byte first, in hex
sha256_bytes(bytes) ==
    LET words_bytes(h) ==
            [k \in 1..32 |->
                IF k % 2 = 1
                THEN h[(k + 3) \div 4][(((k - 1) \div 2) % 2) + 1] \div 256
                ELSE h[(k + 3) \div 4][(((k - 1) \div 2) % 2) + 1] % 256]
    IN  hex_bytes(words_bytes(sha256_blocks(sha256_H0, sha256_pad(bytes), 0)))

\* the passwords and the salt draws of the login and reset screens
password_1 == <<"p", "a", "s", "s", "w", "o", "r", "d">>
password_2 == <<"P", "a", "s", "s", "$", "w", "0", "r", "d">>
password_short == <<"s", "h", "o", "r", "t">>

salt_bytes_1 == [i \in 1..16 |-> (i * 37) % 256]
salt_bytes_2 == [i \in 1..16 |-> (i * 101 + 7) % 256]

\* the digests of the messages the login and reset screens hash, computed
\* once: the salt of a stored or drawn credential followed by a password
sha256_known ==
    [x \in {token_hex(rb) \o pw : rb \in {salt_bytes_1, salt_bytes_2},
                                  pw \in {password_1, password_2,
                                          password_short, <<>>}} |->
        sha256_bytes(encode(x))]

digest_keeps_characters(x) == x
sha256_hexdigest(x) ==
    IF x \in DOMAIN sha256_known THEN sha256_known[x]
    ELSE sha256_bytes(encode(x))

hash_password(password, random_bytes) ==
    LET salt == token_hex(random_bytes)
        hashed == sha256_hexdigest(salt \o password)
    IN  salt \o <<"$">> \o hashed

verify_password(stored, password) ==
    LET parts == split(stored, "$")
    IN  IF Len(parts) # 2 THEN FALSE
        ELSE LET salt == parts[1]
                 stored_hash == parts[2]
                 computed_hash == sha256_hexdigest(salt \o password)
             IN  computed_hash = stored_hash

\* utils/auth.py has a generate_reset_code of its own, exported by the utils
\* package: secrets.token_hex(length // 2) over the bytes drawn
auth_generate_reset_code(length, random_bytes) ==
    token_hex(SubSeq(random_bytes, 1, length \div 2))

(***************************************************************************)
(* Lockout tracker (utils/login_helpers.py, LoginLockoutManager).          *)
(* Each method is an operator from the manager (and the clock it reads)    *)
(* to the manager it leaves, with the value it returns where it has one.   *)
(***************************************************************************)
MAX_ATTEMPTS == 3
LOCKOUT_DURATION == 300

dict_get(d, k, default) == IF k \in DOMAIN d THEN d[k] ELSE default
dict_set(d, k, v) == [x \in DOMAIN d \cup {k} |-> IF x = k THEN v ELSE d[x]]
dict_pop(d, k) == [x \in DOMAIN d \ {k} |-> d[x]]

LoginLockoutManager_init == [failed_attempts |-> <<>>, lockout_expiry |-> <<>>]

increment_failed_attempts_strict(self, username, time) ==
    LET attempts == dict_get(self.failed_attempts, username, 0) + 1
    IN  [failed_attempts |-> dict_set(self.failed_attempts, username, attempts),
         lockout_expiry |->
            IF attempts > MAX_ATTEMPTS
            THEN dict_set(self.lockout_expiry, username, time + LOCKOUT_DURATION)
            ELSE self.lockout_expiry]
increment_failed_attempts(self, username, time) ==
    LET attempts == dict_get(self.failed_attempts, username, 0) + 1
    IN  [failed_attempts |-> dict_set(self.failed_attempts, username, attempts),
         lockout_expiry |->
            IF attempts >= MAX_ATTEMPTS
            THEN dict_set(self.lockout_expiry, username, time + LOCKOUT_DURATION)
            ELSE self.lockout_expiry]

clear_lockout_clears_everyone(self, username) == LoginLockoutManager_init
clear_lockout_keeps_count(self, username) ==
    [failed_attempts |-> self.failed_attempts,
     lockout_expiry |-> dict_pop(self.lockout_expiry, username)]
clear_lockout(self, username) ==
    [failed_attempts |-> dict_pop(self.failed_attempts, username),
     lockout_expiry |-> dict_pop(self.lockout_expiry, username)]

is_locked_out_always_open(self, username, time) == [ret |-> FALSE, self |-> self]
is_locked_out_clears_unlocked(self, username, time) ==
    IF username \notin DOMAIN self.lockout_expiry
    THEN [ret |-> FALSE, self |-> clear_lockout(self, username)]
    ELSE IF time > self.lockout_expiry[username]
         THEN [ret |-> FALSE, self |-> clear_lockout(self, username)]
         ELSE [ret |-> TRUE, self |-> self]
is_locked_out_drops_expiry_only(self, username, time) ==
    IF username \notin DOMAIN self.lockout_expiry
    THEN [ret |-> FALSE, self |-> self]
    ELSE IF time > self.lockout_expiry[username]
         THEN [ret |-> FALSE,
               self |-> [self EXCEPT !.lockout_expiry = dict_pop(@, username)]]
         ELSE [ret |-> TRUE, self |-> self]
is_locked_out_no_heal(self, username, time) ==
    IF username \notin DOMAIN self.lockout_expiry
    THEN [ret |-> FALSE, self |-> self]
    ELSE IF time > self.lockout_expiry[username]
         THEN [ret |-> FALSE, self |-> self]
         ELSE [ret |-> TRUE, self |-> self]
is_locked_out(self, username, time) ==
    IF username \notin DOMAIN self.lockout_expiry
    THEN [ret |-> FALSE, self |-> self]
    ELSE IF time > self.lockout_expiry[username]
         THEN [ret |-> FALSE, self |-> clear_lockout(self, username)]
         ELSE [ret |-> TRUE, self |-> self]

\* int(x / 60) truncates toward zero
int_div(a, b) == IF a >= 0 THEN a \div b ELSE -((-a) \div b)
max(a, b) == IF a >= b THEN a ELSE b

get_remaining_lockout_minutes_rounds_up(self, username, time) ==
    IF username \notin DOMAIN self.lockout_expiry
            \/ self.lockout_expiry[username] = 0
    THEN 0
    ELSE max(0, int_div(self.lockout_expiry[username] - time + 59, 60))
get_remaining_lockout_minutes(self, username, time) ==
    IF username \notin DOMAIN self.lockout_expiry
            \/ self.lockout_expiry[username] = 0
    THEN 0
    ELSE max(0, int_div(self.lockout_expiry[username] - time, 60))

(***************************************************************************)
(* Login helpers (utils/login_helpers.py) and the users table              *)
(* (utils/database.py).                                                    *)
(***************************************************************************)
None == [none |-> TRUE]

validate_login_input_any_length(username, password) ==
    IF username = <<>> \/ password = <<>>
    THEN [valid |-> FALSE, error |-> "Please enter both username and password."]
    ELSE IF "@" \notin Range(username) \/ "." \notin Range(username)
    THEN [valid |-> FALSE, error |-> "Please enter a valid email address."]
    ELSE [valid |-> TRUE, error |-> ""]
validate_login_input(username, password) ==
    IF username = <<>> \/ password = <<>>
    THEN [valid |-> FALSE, error |-> "Please enter both username and password."]
    ELSE IF "@" \notin Range(username) \/ "." \notin Range(username)
    THEN [valid |-> FALSE, error |-> "Please enter a valid email address."]
    ELSE IF Len(password) < 8
    THEN [valid |-> FALSE, error |-> "Password must be at least 8 characters."]
    ELSE [valid |-> TRUE, error |-> ""]

\* SELECT * FROM users WHERE email=%s; fetchone()
get_user_by_username(table, username) ==
    IF \E i \in DOMAIN table : table[i].email = username
    THEN table[CHOOSE i \in DOMAIN table :
                  /\ table[i].email = username
                  /\ \A j \in 1..(i - 1) : table[j].email # username]
    ELSE None

authenticate_user(table, username, password) ==
    LET user == get_user_by_username(table, username)
    IN  IF user = None THEN [success |-> FALSE, user |-> None]
        ELSE IF ~verify_password(user.password_hash, password)
        THEN [success |-> FALSE, user |-> None]
        ELSE [success |-> TRUE, user |-> user]

(***************************************************************************)
(* Reset helpers (utils/reset_helpers.py) and the password_reset_tokens    *)
(* table (utils/database.py).  A write takes ok: whether the statement     *)
(* succeeded or raised mysql.connector.Error, which the Database catches.  *)
(* Rows are kept in token_id order, the order a table scan returns them.   *)
(***************************************************************************)
RESET_TOKEN_EXPIRY_MINUTES == 5

alphabet == ascii_uppercase \o digits

\* ''.join(secrets.choice(alphabet) for _ in range(length)); choices[i] is
\* the position in alphabet that the i-th secrets.choice picks
generate_reset_code(length, choices) ==
    [i \in 1..length |-> alphabet[choices[i]]]

update_user_password_writes_on_failure(table, user_id, new_password_hash, ok) ==
    [ret |-> ok,
     users |-> [i \in DOMAIN table |->
                   IF table[i].user_id = user_id
                   THEN [table[i] EXCEPT !.password_hash = new_password_hash]
                   ELSE table[i]]]
update_user_password(table, user_id, new_password_hash, ok) ==
    IF ok
    THEN [ret |-> TRUE,
          users |-> [i \in DOMAIN table |->
                        IF table[i].user_id = user_id
                        THEN [table[i] EXCEPT !.password_hash = new_password_hash]
                        ELSE table[i]]]
    ELSE [ret |-> FALSE, users |-> table]

create_password_reset_token_writes_on_failure(table, user_id, token, expires_at, ok) ==
    [ret |-> ok,
     tokens |-> Append(table, [token_id |-> Len(table) + 1,
                               user_id |-> user_id,
                               token |-> upper(strip(token)),
                               expires_at |-> expires_at,
                               is_used |-> FALSE])]
create_password_reset_token(table, user_id, token, expires_at, ok) ==
    IF ok
    THEN [ret |-> TRUE,
          tokens |-> Append(table, [token_id |-> Len(table) + 1,
                                    user_id |-> user_id,
                                    token |-> upper(strip(token)),
                                    expires_at |-> expires_at,
                                    is_used |-> FALSE])]
    ELSE [ret |-> FALSE, tokens |-> table]

get_password_reset_token_last_row(table, token) ==
    LET t == upper(strip(token))
    IN  IF \E i \in DOMAIN table : upper(table[i].token) = t
        THEN table[CHOOSE i \in DOMAIN table :
                      /\ upper(table[i].token) = t
                      /\ \A j \in (i + 1)..Len(table) : upper(table[j].token) # t]
        ELSE None
\* SELECT * FROM password_reset_tokens WHERE UPPER(token)=%s; fetchone()
get_password_reset_token(table, token) ==
    LET t == upper(strip(token))
    IN  IF \E i \in DOMAIN table : upper(table[i].token) = t
        THEN table[CHOOSE i \in DOMAIN table :
                      /\ upper(table[i].token) = t
                      /\ \A j \in 1..(i - 1) : upper(table[j].token) # t]
        ELSE None

db_mark_token_used(table, token_id, ok) ==
    IF ok
    THEN [ret |-> TRUE,
          tokens |-> [i \in DOMAIN table |->
                         IF table[i].token_id = token_id
                         THEN [table[i] EXCEPT !.is_used = TRUE]
                         ELSE table[i]]]
    ELSE [ret |-> FALSE, tokens |-> table]

create_reset_token(table, user_id, choices, time, ok) ==
    LET token == upper(generate_reset_code(6, choices))
        expires_at == time + RESET_TOKEN_EXPIRY_MINUTES * 60
        w == create_password_reset_token(table, user_id, token, expires_at, ok)
    IN  IF w.ret THEN [ret |-> token, tokens |-> w.tokens]
        ELSE [ret |-> None, tokens |-> w.tokens]

validate_reset_token(table, token, time) ==
    LET token_data == get_password_reset_token(table, upper(strip(token)))
    IN  IF token_data = None THEN FALSE
        ELSE IF token_data.is_used THEN FALSE
        ELSE IF token_data.expires_at < time THEN FALSE
        ELSE TRUE

mark_token_used(table, token_id, ok) == db_mark_token_used(table, token_id, ok)

reset_password_stores_digest_only(table, user_id, new_password, random_bytes, ok) ==
    update_user_password(table, user_id, sha256_hexdigest(new_password), ok)
reset_password(table, user_id, new_password, random_bytes, ok) ==
    LET password_hash == hash_password(new_password, random_bytes)
    IN  update_user_password(table, user_id, password_hash, ok)

(***************************************************************************)
(* Inputs: identities, typed texts, passwords, salts.                      *)
(***************************************************************************)
user_a == <<"a", "@", "b", ".", "c">>
user_m == <<"m", "@", "b", ".", "c">>
user_e == <<"é", "@", "b", ".", "c">>
Usernames == {user_a, user_e}

\* what is typed before a click on Login: every well-formed pair, and for
\* each rule of validate_login_input a pair that breaks it
LoginTexts ==
    ({user_a, upper(user_e), <<chr_a0, "A", "@", "B", ".", "c", "\r">>}
        \X {password_1, password_2})
    \cup {<<<<>>, password_1>>, <<user_a, <<>>>>,
          <<<<"a", "b", ".", "c">>, password_1>>,
          <<<<"a", "@", "b">>, password_1>>, <<user_a, password_short>>}
UsernameTexts == {typed[1] : typed \in LoginTexts}
PasswordTexts == {typed[2] : typed \in LoginTexts}

EmailTexts == {user_a, <<chr_a0, "M", "@", "b", ".", "c">>, user_e, <<>>}
choices_1 == <<1, 2, 3, 27, 28, 29>>
choices_2 == <<24, 25, 26, 34, 35, 36>>
CodeChoices == {choices_1, choices_2}
code_1 == generate_reset_code(6, choices_1)
code_2 == generate_reset_code(6, choices_2)
TokenTexts ==
    {<<" ">> \o lower(code_1) \o <<chr_a0>>, code_2, <<>>,
     <<"ß", "é", "1", "2", "3">>}
NewPasswordTexts == {password_1, password_short}
SaltDraws == {salt_bytes_2}
SendCodeFaults == {"none", "select", "insert", "mail"}
\* seconds between the clock read of validate_reset_token and the UPDATE of
\* the same submission
ResetDelays == 0..MaxElapsed

(***************************************************************************)
(* State after construction: LoginScreen.__init__, a Data Store holding    *)
(* two registered users.                                                   *)
(***************************************************************************)
\* The state of the section 4.3 state machine an identity is in
TrackerState(self, username) ==
    IF username \in DOMAIN self.lockout_expiry THEN "LockedOut"
    ELSE IF username \in DOMAIN self.failed_attempts THEN "Accumulating"
    ELSE "Clear"

\* no message box is open
no_modal == [handler |-> "", username |-> <<>>]

DbCall(call, arg, ok) == [call |-> call, arg |-> arg, ok |-> ok]

Shown(handler, box, text, n, username, password) ==
    [handler |-> handler, box |-> box, text |-> text, n |-> n,
     username |-> username, password |-> password]

Threads == 1..NumThreads

\* the state after construction, the function calls aside
InitProgram ==
    /\ now = 0
    /\ lockout_manager = LoginLockoutManager_init
    /\ last = [op |-> "init", username |-> <<>>, before |-> "-", ret |-> FALSE]
    /\ streak = [u \in Usernames |-> 0]
    /\ last_failure_at = [u \in Usernames |-> 0]
    /\ users = <<[user_id |-> 1, email |-> user_a, first_name |-> <<"A", "n", "n">>,
                  password_hash |-> hash_password(password_1, salt_bytes_1)],
                 [user_id |-> 2, email |-> user_m, first_name |-> <<"M", "a", "x">>,
                  password_hash |-> hash_password(password_2, salt_bytes_2)]>>
    /\ is_logging_in = FALSE
    /\ timer_active = FALSE
    /\ pending_username = <<>>
    /\ pending_password = <<>>
    /\ input_username = <<>>
    /\ modal = no_modal
    /\ shown = Shown("init", "", "", 0, <<>>, <<>>)
    /\ db_calls = <<>>
    /\ tokens = <<>>
    /\ password_changes = <<>>
    /\ thread_pc = [t \in Threads |-> "idle"]
    /\ thread_username = [t \in Threads |-> <<>>]
    /\ thread_attempts = [t \in Threads |-> 0]
    /\ calls_completed = [u \in Usernames |-> 0]

hasher_idle ==
    [stage |-> "idle", password |-> <<>>, random_bytes |-> <<>>,
     stored |-> <<>>, candidate |-> <<>>, ret |-> FALSE]
generator_idle ==
    [stage |-> "idle", module |-> "", length |-> 0, draws |-> <<>>, ret |-> <<>>]

Init ==
    /\ InitProgram
    /\ hasher = hasher_idle
    /\ generator = generator_idle

(***************************************************************************)
(* The tracker driven directly, one call at a time, by any caller.         *)
(***************************************************************************)
reset_vars == <<tokens, password_changes>>
non_tracker_vars ==
    <<users, login_vars,
      shown, db_calls, reset_vars, thread_vars, function_vars>>

Tick ==
    \E d \in TickSteps :
        /\ now + d <= MaxTime
        /\ now' = now + d
        /\ last' = [op |-> "tick", username |-> <<>>, before |-> "-", ret |-> FALSE]
        /\ UNCHANGED <<lockout_manager, streak, last_failure_at, non_tracker_vars>>

CallIncrementFailedAttempts(u) ==
    /\ streak[u] < MaxStreak
    /\ lockout_manager' = increment_failed_attempts(lockout_manager, u, now)
    /\ last' = [op |-> "increment_failed_attempts", username |-> u,
                before |-> TrackerState(lockout_manager, u), ret |-> FALSE]
    /\ streak' = [streak EXCEPT ![u] = @ + 1]
    /\ last_failure_at' = [last_failure_at EXCEPT ![u] = now]
    /\ UNCHANGED <<now, non_tracker_vars>>

CallClearLockout(u) ==
    /\ lockout_manager' = clear_lockout(lockout_manager, u)
    /\ last' = [op |-> "clear_lockout", username |-> u,
                before |-> TrackerState(lockout_manager, u), ret |-> FALSE]
    /\ streak' = [streak EXCEPT ![u] = 0]
    /\ UNCHANGED <<now, last_failure_at, non_tracker_vars>>

CallIsLockedOut(u) ==
    LET r == is_locked_out(lockout_manager, u, now)
    IN  /\ lockout_manager' = r.self
        /\ last' = [op |-> "is_locked_out", username |-> u,
                    before |-> TrackerState(lockout_manager, u), ret |-> r.ret]
        /\ UNCHANGED <<now, streak, last_failure_at, non_tracker_vars>>

CallGetRemainingLockoutMinutes(u) ==
    /\ last' = [op |-> "get_remaining_lockout_minutes", username |-> u,
                before |-> TrackerState(lockout_manager, u),
                ret |-> get_remaining_lockout_minutes(lockout_manager, u, now)]
    /\ UNCHANGED <<now, lockout_manager, streak, last_failure_at, non_tracker_vars>>

NextTracker ==
    \/ Tick
    \/ \E u \in Usernames : CallIncrementFailedAttempts(u)
    \/ \E u \in Usernames : CallClearLockout(u)
    \/ \E u \in Usernames : CallIsLockedOut(u)
    \/ \E u \in Usernames : CallGetRemainingLockoutMinutes(u)

SpecTracker == Init /\ [][NextTracker]_vars

(***************************************************************************)
(* increment_failed_attempts called from several threads on one manager.   *)
(* The method takes no lock; the interpreter may switch threads between    *)
(* any two statements, so each statement is a step of its own.             *)
(***************************************************************************)
RECURSIVE SumOver(_, _)
SumOver(f, S) ==
    IF S = {} THEN 0
    ELSE LET x == CHOOSE y \in S : TRUE IN f[x] + SumOver(f, S \ {x})

CallsStarted ==
    SumOver(calls_completed, Usernames)
        + Cardinality({t \in Threads : thread_pc[t] # "idle"})

thread_frame ==
    UNCHANGED <<now, tracker_history, users, login_vars, shown, db_calls,
                reset_vars, function_vars>>

\* line 24: attempts = self.failed_attempts.get(username, 0) + 1
ThreadLine24(t, username) ==
    /\ thread_pc[t] = "idle"
    /\ CallsStarted < MaxCalls
    /\ thread_username' = [thread_username EXCEPT ![t] = username]
    /\ thread_attempts' = [thread_attempts EXCEPT
                              ![t] = dict_get(lockout_manager.failed_attempts,
                                              username, 0) + 1]
    /\ thread_pc' = [thread_pc EXCEPT ![t] = "line_25"]
    /\ UNCHANGED <<lockout_manager, calls_completed>>
    /\ thread_frame

\* line 25: self.failed_attempts[username] = attempts
ThreadLine25(t) ==
    /\ thread_pc[t] = "line_25"
    /\ lockout_manager' =
          [lockout_manager EXCEPT
              !.failed_attempts = dict_set(@, thread_username[t],
                                           thread_attempts[t])]
    /\ thread_pc' = [thread_pc EXCEPT ![t] = "line_27"]
    /\ UNCHANGED <<thread_username, thread_attempts, calls_completed>>
    /\ thread_frame

\* lines 27-28: if attempts >= self.MAX_ATTEMPTS: set the expiry; then return
ThreadLine27(t) ==
    /\ thread_pc[t] = "line_27"
    /\ lockout_manager' =
          IF thread_attempts[t] >= MAX_ATTEMPTS
          THEN [lockout_manager EXCEPT
                   !.lockout_expiry = dict_set(@, thread_username[t],
                                               now + LOCKOUT_DURATION)]
          ELSE lockout_manager
    /\ thread_pc' = [thread_pc EXCEPT ![t] = "idle"]
    /\ calls_completed' = [calls_completed EXCEPT ![thread_username[t]] = @ + 1]
    /\ UNCHANGED <<thread_username, thread_attempts>>
    /\ thread_frame

NextThreads ==
    \/ \E t \in Threads, u \in Usernames : ThreadLine24(t, u)
    \/ \E t \in Threads : ThreadLine25(t)
    \/ \E t \in Threads : ThreadLine27(t)

SpecThreads == Init /\ [][NextThreads]_vars

(***************************************************************************)
(* The login screen (screens/login.py).  A local of a handler is bound     *)
(* once, by \E over the one value it is assigned.                          *)
(***************************************************************************)
\* The clock reads of one handler run: a later read is up to MaxElapsed
\* seconds after an earlier one.
ClockDelays == 0..MaxElapsed
\* The bound of the clock: the seconds that pass inside handlers are counted
\* up to MaxDrift past a multiple of TickQuantum, and the clock up to
\* MaxLoginTime.  A run that reads the clock more than once is taken while
\* every delay of ClockDelays fits.
ClockHasRoom(time) ==
    /\ time + MaxElapsed <= MaxLoginTime
    /\ (time % TickQuantum) + MaxElapsed <= MaxDrift

LoginTick ==
    \E d \in TickSteps :
        /\ now + d <= MaxLoginTime
        /\ timer_active => ClockHasRoom(now + d)
        /\ now' = now + d
        /\ UNCHANGED <<tracker_vars, users, login_vars, shown, db_calls, reset_vars, thread_vars, function_vars>>

\* what every exit of _on_login_clicked leaves alone or sets; time is the
\* clock at its last read.  Its message boxes are the last statement before
\* return, so the state with the box open is the state the handler leaves.
LoginClickOutcome(box, text, n, username, password, time) ==
    /\ shown' = Shown("_on_login_clicked", box, text, n, username, password)
    /\ db_calls' = <<>>
    /\ now' = time
    /\ UNCHANGED <<tracker_history, users, reset_vars, thread_vars, function_vars>>

StartLoginAttempt(username, password) ==
    /\ is_logging_in' = TRUE
    /\ pending_username' = username
    /\ pending_password' = password
    /\ timer_active' = TRUE

on_login_clicked_no_lockout_check(typed_username, typed_password) ==
    /\ modal = no_modal
    /\ IF is_logging_in THEN UNCHANGED vars
       ELSE
         modal' = modal /\ input_username' = typed_username /\
         \E username \in {lower(strip(typed_username))}, password \in {typed_password} :
         \E v \in {validate_login_input(username, password)} :
           IF ~v.valid
           THEN /\ LoginClickOutcome("Validation Error", v.error, 0,
                                     username, password, now)
                /\ UNCHANGED <<lockout_manager, attempt_vars>>
           ELSE
             /\ ClockHasRoom(now)
             /\ LoginClickOutcome("", "Logging in... Please wait.", 0,
                                  username, password, now)
             /\ UNCHANGED lockout_manager
             /\ StartLoginAttempt(username, password)
on_login_clicked_keeps_case(typed_username, typed_password) ==
    /\ modal = no_modal
    /\ IF is_logging_in THEN UNCHANGED vars
       ELSE
         modal' = modal /\ input_username' = typed_username /\
         \E username \in {strip(typed_username)}, password \in {typed_password} :
         \E v \in {validate_login_input(username, password)} :
           IF ~v.valid
           THEN /\ LoginClickOutcome("Validation Error", v.error, 0,
                                     username, password, now)
                /\ UNCHANGED <<lockout_manager, attempt_vars>>
           ELSE
             \E locked \in {is_locked_out(lockout_manager, username, now)} :
               /\ ClockHasRoom(now)
               /\ lockout_manager' = locked.self
               /\ IF locked.ret
                  THEN \E elapsed \in ClockDelays :
                         /\ LoginClickOutcome(
                                "Locked Out", "Too many failed attempts.",
                                get_remaining_lockout_minutes(
                                    locked.self, username, now + elapsed),
                                username, password, now + elapsed)
                         /\ UNCHANGED attempt_vars
                  ELSE /\ LoginClickOutcome("", "Logging in... Please wait.", 0,
                                            username, password, now)
                       /\ StartLoginAttempt(username, password)
\* The Login button's slot.  is_locked_out reads the clock, and
\* get_remaining_lockout_minutes reads it again.
OnLoginClicked(typed_username, typed_password) ==
    /\ modal = no_modal
    /\ IF is_logging_in THEN UNCHANGED vars
       ELSE
         modal' = modal /\ input_username' = typed_username /\
         \E username \in {lower(strip(typed_username))}, password \in {typed_password} :
         \E v \in {validate_login_input(username, password)} :
           IF ~v.valid
           THEN /\ LoginClickOutcome("Validation Error", v.error, 0,
                                     username, password, now)
                /\ UNCHANGED <<lockout_manager, attempt_vars>>
           ELSE
             \E locked \in {is_locked_out(lockout_manager, username, now)} :
               /\ ClockHasRoom(now)
               /\ lockout_manager' = locked.self
               /\ IF locked.ret
                  THEN \E elapsed \in ClockDelays :
                         /\ LoginClickOutcome(
                                "Locked Out", "Too many failed attempts.",
                                get_remaining_lockout_minutes(
                                    locked.self, username, now + elapsed),
                                username, password, now + elapsed)
                         /\ UNCHANGED attempt_vars
                  ELSE /\ LoginClickOutcome("", "Logging in... Please wait.", 0,
                                            username, password, now)
                       /\ StartLoginAttempt(username, password)

\* The timer's timeout slot, to the point where it returns or opens a message
\* box.  db_ok = FALSE: the SELECT raises, the exception leaves the slot at
\* the authenticate_user call and nothing after it runs.  On a failure
\* increment_failed_attempts, is_locked_out and
\* get_remaining_lockout_minutes read the clock one after the other (the
\* last two only for an identity that has an expiry), and QMessageBox.warning
\* returns only when the box is closed: until then _set_login_state(False)
\* has not run.
complete_login_attempt_unknown_untracked(db_ok) ==
    /\ timer_active
    /\ timer_active' = FALSE
    /\ db_calls' = <<DbCall("get_user_by_username", pending_username, db_ok)>>
    /\ UNCHANGED <<tracker_history, users, pending_username, pending_password,
                   reset_vars, thread_vars, function_vars>>
    /\ \E username \in {pending_username}, password \in {pending_password} :
         IF ~db_ok
         THEN /\ shown' = Shown("_complete_login_attempt", "exception",
                                "mysql.connector.Error", 0, username, password)
              /\ UNCHANGED <<now, lockout_manager, is_logging_in,
                             input_username, modal>>
         ELSE
           \E r \in {authenticate_user(users, username, password)} :
             IF r.success
             THEN /\ lockout_manager' = clear_lockout(lockout_manager, username)
                  /\ shown' = Shown("_complete_login_attempt",
                                    "login_successful", "", 0,
                                    username, password)
                  /\ input_username' = <<>>
                  /\ is_logging_in' = FALSE
                  /\ UNCHANGED <<now, modal>>
             ELSE
               \E failed \in {IF get_user_by_username(users, username) = None
                              THEN lockout_manager
                              ELSE increment_failed_attempts(
                                       lockout_manager, username, now)} :
               \E attempts_left \in
                     {3 - dict_get(failed.failed_attempts, username, 0)},
                  until_check \in ClockDelays :
               \E locked \in {is_locked_out(failed, username, now + until_check)} :
               \E until_read \in
                     IF locked.ret THEN ClockDelays ELSE {0} :
                 /\ until_check + until_read <= MaxElapsed
                 /\ (username \notin DOMAIN failed.lockout_expiry) => until_check = 0
                 /\ now' = now + until_check + until_read
                 /\ lockout_manager' = locked.self
                 /\ shown' =
                      IF locked.ret
                      THEN Shown("_complete_login_attempt", "Locked Out",
                                 "Too many failed attempts.",
                                 get_remaining_lockout_minutes(
                                     locked.self, username,
                                     now + until_check + until_read),
                                 username, password)
                      ELSE Shown("_complete_login_attempt", "Login Failed",
                                 "Invalid credentials.", attempts_left,
                                 username, password)
                 /\ modal' = [handler |-> "_complete_login_attempt",
                              username |-> username]
                 /\ UNCHANGED <<is_logging_in, input_username>>
CompleteLoginAttempt(db_ok) ==
    /\ timer_active
    /\ timer_active' = FALSE
    /\ db_calls' = <<DbCall("get_user_by_username", pending_username, db_ok)>>
    /\ UNCHANGED <<tracker_history, users, pending_username, pending_password,
                   reset_vars, thread_vars, function_vars>>
    /\ \E username \in {pending_username}, password \in {pending_password} :
         IF ~db_ok
         THEN /\ shown' = Shown("_complete_login_attempt", "exception",
                                "mysql.connector.Error", 0, username, password)
              /\ UNCHANGED <<now, lockout_manager, is_logging_in,
                             input_username, modal>>
         ELSE
           \E r \in {authenticate_user(users, username, password)} :
             IF r.success
             THEN /\ lockout_manager' = clear_lockout(lockout_manager, username)
                  /\ shown' = Shown("_complete_login_attempt",
                                    "login_successful", "", 0,
                                    username, password)
                  /\ input_username' = <<>>
                  /\ is_logging_in' = FALSE
                  /\ UNCHANGED <<now, modal>>
             ELSE
               \E failed \in {increment_failed_attempts(
                                  lockout_manager, username, now)} :
               \E attempts_left \in
                     {3 - dict_get(failed.failed_attempts, username, 0)},
                  until_check \in ClockDelays :
               \E locked \in {is_locked_out(failed, username, now + until_check)} :
               \E until_read \in
                     IF locked.ret THEN ClockDelays ELSE {0} :
                 /\ until_check + until_read <= MaxElapsed
                 /\ (username \notin DOMAIN failed.lockout_expiry) => until_check = 0
                 /\ now' = now + until_check + until_read
                 /\ lockout_manager' = locked.self
                 /\ shown' =
                      IF locked.ret
                      THEN Shown("_complete_login_attempt", "Locked Out",
                                 "Too many failed attempts.",
                                 get_remaining_lockout_minutes(
                                     locked.self, username,
                                     now + until_check + until_read),
                                 username, password)
                      ELSE Shown("_complete_login_attempt", "Login Failed",
                                 "Invalid credentials.", attempts_left,
                                 username, password)
                 /\ modal' = [handler |-> "_complete_login_attempt",
                              username |-> username]
                 /\ UNCHANGED <<is_logging_in, input_username>>

\* The user closes the box of a failed attempt: QMessageBox.warning returns
\* and the slot runs to its end, _set_login_state(False).
CloseLoginFailedBox ==
    /\ modal.handler = "_complete_login_attempt"
    /\ modal' = no_modal
    /\ is_logging_in' = FALSE
    /\ UNCHANGED <<now, tracker_vars, users, timer_active, pending_username,
                   pending_password, input_username, shown, db_calls,
                   reset_vars, thread_vars, function_vars>>

(***************************************************************************)
(* The sign-up screen (screens/signup.py, utils/signup_helpers.py) and the *)
(* application's signup_successful slot (main.py).                         *)
(***************************************************************************)
\* re.match(r"[^@]+@[^@]+\.[^@]+", email): from the start of the text, one or
\* more characters other than "@", an "@", one or more characters other than
\* "@", a ".", and one more character other than "@"; the text may go on
email_regex_matches(email) ==
    \E i \in DOMAIN email, j \in DOMAIN email :
        /\ i >= 2
        /\ email[i] = "@"
        /\ \A k \in 1..(i - 1) : email[k] # "@"
        /\ j >= i + 2
        /\ email[j] = "."
        /\ \A k \in (i + 1)..(j - 1) : email[k] # "@"
        /\ j < Len(email)
        /\ email[j + 1] # "@"
\* re.match(r"^\+?\d{7,15}$", phone): an optional "+" and 7 to 15 digits, up
\* to the end of the text or to a line feed that ends it
phone_regex_matches(phone) ==
    \E body \in {phone} \cup
                (IF phone # <<>> /\ phone[Len(phone)] = "\n"
                 THEN {SubSeq(phone, 1, Len(phone) - 1)} ELSE {}) :
    \E number \in {IF body # <<>> /\ body[1] = "+" THEN Tail(body) ELSE body} :
        /\ Len(number) >= 7
        /\ Len(number) <= 15
        /\ \A k \in DOMAIN number : number[k] \in Range(digits)

validate_signup_input(first_name, last_name, email, phone, password, confirm_password) ==
    IF first_name = <<>> \/ last_name = <<>>
    THEN [valid |-> FALSE, error |-> "Please enter your full name."]
    ELSE IF ~email_regex_matches(email)
    THEN [valid |-> FALSE, error |-> "Invalid email address."]
    ELSE IF ~phone_regex_matches(phone)
    THEN [valid |-> FALSE, error |-> "Invalid phone number."]
    ELSE IF Len(password) < 8
    THEN [valid |-> FALSE,
          error |-> "Password must be at least 8 characters long."]
    ELSE IF password # confirm_password
    THEN [valid |-> FALSE, error |-> "Passwords do not match."]
    ELSE [valid |-> TRUE, error |-> ""]

\* Database.create_user: INSERT INTO users; the new row gets the next user_id
Database_create_user(table, first_name, last_name, email, phone, password_hash, ok) ==
    IF ok
    THEN [ret |-> TRUE,
          users |-> Append(table, [user_id |-> Len(table) + 1,
                                   email |-> email,
                                   first_name |-> first_name,
                                   last_name |-> last_name,
                                   phone_number |-> phone,
                                   password_hash |-> password_hash])]
    ELSE [ret |-> FALSE, users |-> table]

\* signup_helpers.create_user, once its SELECT has returned
create_user(table, first_name, last_name, email, phone, password, random_bytes, ok) ==
    IF get_user_by_username(table, email) # None
    THEN [success |-> FALSE,
          error |-> "An account with this email already exists.",
          users |-> table, inserted |-> FALSE]
    ELSE LET password_hash == hash_password(password, random_bytes)
             w == Database_create_user(table, first_name, last_name, email,
                                       phone, password_hash, ok)
         IN  IF w.ret
             THEN [success |-> TRUE, error |-> "", users |-> w.users,
                   inserted |-> TRUE]
             ELSE [success |-> FALSE,
                   error |-> "Failed to create user. Please try again.",
                   users |-> w.users, inserted |-> TRUE]

\* what is typed into the form: a new address, a registered one, a password
\* that is not repeated
SignupForms ==
    LET SignupForm(email, phone, password, confirm_password) ==
            [first_name |-> <<"Z", "e", "d">>,
             last_name |-> <<"Z", "u", "l", "u">>, email |-> email,
             phone |-> phone, password |-> password,
             confirm_password |-> confirm_password]
        phone_1 == <<"+", "2", "7", "1", "2", "3", "4", "5", "6", "7">>
    IN
    {SignupForm(<<" ", "É", "@", "b", ".", "c", chr_a0>>, phone_1,
                password_1, password_1),
     SignupForm(user_a, phone_1, password_1, password_1),
     SignupForm(user_e, phone_1, password_1, password_2)}

\* what every exit of on_signup_clicked leaves alone or sets
SignupOutcome(utable, box, text, email, password, calls, waiting) ==
    /\ users' = utable
    /\ shown' = Shown("on_signup_clicked", box, text, 0, email, password)
    /\ db_calls' = calls
    /\ modal' = waiting
    /\ UNCHANGED <<now, tracker_vars, attempt_vars, input_username,
                   reset_vars, thread_vars, function_vars>>

\* The Sign Up button's slot, to the point where it returns or opens the
\* "Success" box.  The sign-up screen is reached from the welcome screen, and
\* the login screen is left by its Back button, which _set_login_state
\* disables while an attempt is in flight.  select_ok = FALSE: the SELECT of
\* create_user raises and the exception leaves the slot.
OnSignupClicked(form) ==
    /\ ~is_logging_in
    /\ modal = no_modal
    /\ \E first_name \in {strip(form.first_name)},
          last_name \in {strip(form.last_name)},
          email \in {lower(strip(form.email))},
          phone \in {strip(form.phone)},
          password \in {form.password},
          confirm_password \in {form.confirm_password} :
       \E v \in {validate_signup_input(first_name, last_name, email, phone,
                                       password, confirm_password)} :
         IF ~v.valid
         THEN SignupOutcome(users, "Validation Error", v.error, email,
                            password, <<>>, no_modal)
         ELSE
           \E select_ok \in BOOLEAN :
           \E select \in {DbCall("get_user_by_username", email, select_ok)} :
             IF ~select_ok
             THEN SignupOutcome(users, "exception", "mysql.connector.Error",
                                email, password, <<select>>, no_modal)
             ELSE
               \E random_bytes \in SaltDraws, insert_ok \in BOOLEAN :
               \E r \in {create_user(users, first_name, last_name, email,
                                     phone, password, random_bytes, insert_ok)} :
               \E calls \in {IF r.inserted
                             THEN <<select, DbCall("create_user", email, insert_ok)>>
                             ELSE <<select>>} :
                 IF r.success
                 THEN SignupOutcome(r.users, "Success",
                          "Account created successfully! Please log in.",
                          email, password, calls,
                          [handler |-> "on_signup_clicked", username |-> email])
                 ELSE SignupOutcome(r.users, "Error", r.error, email,
                                    password, calls, no_modal)

\* The user closes the "Success" box: signup_successful is emitted and
\* LoginSystemApp.on_signup_successful puts the address into the login
\* screen's username field.
CloseSignupSuccessBox ==
    /\ modal.handler = "on_signup_clicked"
    /\ modal' = no_modal
    /\ input_username' = modal.username
    /\ UNCHANGED <<now, tracker_vars, users, attempt_vars, shown, db_calls,
                   reset_vars, thread_vars, function_vars>>

NextLogin ==
    \/ LoginTick
    \/ \E typed \in LoginTexts : OnLoginClicked(typed[1], typed[2])
    \/ \E db_ok \in BOOLEAN : CompleteLoginAttempt(db_ok)
    \/ CloseLoginFailedBox
    \/ \E form \in SignupForms : OnSignupClicked(form)
    \/ CloseSignupSuccessBox

SpecLogin == Init /\ [][NextLogin]_vars

\* The event loop runs: an armed single-shot timer fires, and the user
\* closes a message box that is open.
SpecLoginLive ==
    /\ SpecLogin
    /\ WF_vars(\E db_ok \in BOOLEAN : CompleteLoginAttempt(db_ok))
    /\ WF_vars(CloseLoginFailedBox)

(***************************************************************************)
(* The password reset screen (screens/reset_password.py).  In on_send_code *)
(* fault names the statement that fails, if one does: a SELECT raises and  *)
(* ends the handler, a write returns False.                                *)
(***************************************************************************)
send_reset_email(email, first_name, token, mail_ok) == mail_ok

ResetTick ==
    \E d \in ResetTickSteps :
        /\ now + d <= MaxResetTime
        /\ now' = now + d
        /\ UNCHANGED <<tracker_vars, users, login_vars, shown, db_calls, reset_vars, thread_vars, function_vars>>

SendCodeOutcome(ttable, box, text, calls) ==
    /\ tokens' = ttable
    /\ password_changes' =
          IF Len(ttable) > Len(tokens)
          THEN Append(password_changes, 0) ELSE password_changes
    /\ shown' = Shown("on_send_code", box, text, 0, <<>>, <<>>)
    /\ db_calls' = calls
    /\ UNCHANGED <<now, tracker_vars, users, login_vars, thread_vars, function_vars>>

OnSendCode(input_email, choices, fault) ==
    /\ Len(tokens) < MaxTokens
    /\ \E email \in {lower(strip(input_email))} :
       \E select \in {DbCall("get_user_by_username", email, fault # "select")} :
         IF email = <<>>
         THEN SendCodeOutcome(tokens, "Error", "Please enter your email.", <<>>)
         ELSE IF fault = "select"
         THEN SendCodeOutcome(tokens, "exception", "mysql.connector.Error",
                              <<select>>)
         ELSE
           \E user \in {get_user_by_username(users, email)} :
             IF user = None
             THEN SendCodeOutcome(tokens, "Error", "Email not found.", <<select>>)
             ELSE
               \E token \in {create_reset_token(tokens, user.user_id, choices,
                                                now, fault # "insert")},
                  insert \in {DbCall("create_password_reset_token",
                                     user.user_id, fault # "insert")} :
                 IF token.ret = None
                 THEN SendCodeOutcome(token.tokens, "Error",
                                      "Failed to create reset token.",
                                      <<select, insert>>)
                 ELSE IF send_reset_email(email, user.first_name, token.ret,
                                          fault # "mail")
                 THEN SendCodeOutcome(token.tokens, "Email Sent",
                                      "Reset code sent to your email.",
                                      <<select, insert>>)
                 ELSE SendCodeOutcome(token.tokens, "Error",
                                      "Failed to send reset email.",
                                      <<select, insert>>)

\* changed: the token_id of the record whose user's password was replaced, or 0;
\* time: the clock when the handler's last Data Store call was made
ResetOutcome(utable, ttable, box, text, calls, changed, time) ==
    /\ now' = time
    /\ users' = utable
    /\ tokens' = ttable
    /\ password_changes' =
          IF changed # 0
          THEN [password_changes EXCEPT
                   ![changed] = IF @ < MaxChangesCounted THEN @ + 1 ELSE @]
          ELSE password_changes
    /\ shown' = Shown("on_reset_password", box, text, 0, <<>>, <<>>)
    /\ db_calls' = calls
    /\ UNCHANGED <<tracker_vars, login_vars, thread_vars, function_vars>>

\* the clock stays within the bounds of the model: handlers add at most
\* MaxElapsed seconds to a multiple of the expiry window
ResetClockBounded(time) ==
    /\ time <= MaxResetTime
    /\ time % (RESET_TOKEN_EXPIRY_MINUTES * 60) <= MaxElapsed

on_reset_password_marks_first(input_token, input_new_password) ==
    \E token \in {strip(input_token)}, new_password \in {input_new_password} :
      IF token = <<>> \/ new_password = <<>>
      THEN ResetOutcome(users, tokens, "Error", "Please fill in all fields.",
                        <<>>, 0, now)
      ELSE IF Len(new_password) < 8
      THEN ResetOutcome(users, tokens, "Error",
                        "Password must be at least 8 characters.", <<>>, 0, now)
      ELSE
        \E validate_ok \in BOOLEAN :
        \E select_1 \in {DbCall("get_password_reset_token", upper(token),
                                validate_ok)} :
          IF ~validate_ok
          THEN ResetOutcome(users, tokens, "exception", "mysql.connector.Error",
                            <<select_1>>, 0, now)
          ELSE IF ~validate_reset_token(tokens, token, now)
          THEN ResetOutcome(users, tokens, "Error",
                            "Invalid or expired reset code.", <<select_1>>, 0, now)
          ELSE
            \E select_ok \in BOOLEAN :
            \E select_2 \in {DbCall("get_password_reset_token", upper(token),
                                    select_ok)} :
              IF ~select_ok
              THEN ResetOutcome(users, tokens, "exception",
                                "mysql.connector.Error",
                                <<select_1, select_2>>, 0, now)
              ELSE
                \E token_data \in {get_password_reset_token(tokens, token)} :
                \E user_id \in {token_data.user_id} :
                \E random_bytes \in SaltDraws, update_ok \in BOOLEAN,
                   update_delay \in ResetDelays, mark_ok \in BOOLEAN :
                \E mk \in {mark_token_used(tokens, token_data.token_id, mark_ok)} :
                \E rp \in {reset_password(users, user_id, new_password,
                                          random_bytes, update_ok)} :
                \E update \in {DbCall("update_user_password", user_id, rp.ret)},
                   mark \in {DbCall("mark_token_used", token_data.token_id,
                                    mk.ret)} :
                  /\ ResetClockBounded(now + update_delay)
                  /\ IF rp.ret
                     THEN ResetOutcome(rp.users, mk.tokens, "Success",
                                       "Password reset successfully.",
                                       <<select_1, select_2, mark, update>>,
                                       token_data.token_id, now + update_delay)
                     ELSE ResetOutcome(rp.users, mk.tokens, "Error",
                                       "Failed to reset password.",
                                       <<select_1, select_2, mark, update>>, 0,
                                       now + update_delay)
\* Each Data Store call of the handler may fail: a SELECT raises and ends the
\* handler, a write returns False.  update_delay is the time from the clock
\* read of validate_reset_token to the UPDATE of the password.
OnResetPassword(input_token, input_new_password) ==
    \E token \in {strip(input_token)}, new_password \in {input_new_password} :
      IF token = <<>> \/ new_password = <<>>
      THEN ResetOutcome(users, tokens, "Error", "Please fill in all fields.",
                        <<>>, 0, now)
      ELSE IF Len(new_password) < 8
      THEN ResetOutcome(users, tokens, "Error",
                        "Password must be at least 8 characters.", <<>>, 0, now)
      ELSE
        \E validate_ok \in BOOLEAN :
        \E select_1 \in {DbCall("get_password_reset_token", upper(token),
                                validate_ok)} :
          IF ~validate_ok
          THEN ResetOutcome(users, tokens, "exception", "mysql.connector.Error",
                            <<select_1>>, 0, now)
          ELSE IF ~validate_reset_token(tokens, token, now)
          THEN ResetOutcome(users, tokens, "Error",
                            "Invalid or expired reset code.", <<select_1>>, 0, now)
          ELSE
            \E select_ok \in BOOLEAN :
            \E select_2 \in {DbCall("get_password_reset_token", upper(token),
                                    select_ok)} :
              IF ~select_ok
              THEN ResetOutcome(users, tokens, "exception",
                                "mysql.connector.Error",
                                <<select_1, select_2>>, 0, now)
              ELSE
                \E token_data \in {get_password_reset_token(tokens, token)} :
                \E user_id \in {token_data.user_id} :
                \E random_bytes \in SaltDraws, update_ok \in BOOLEAN,
                   update_delay \in ResetDelays :
                \E rp \in {reset_password(users, user_id, new_password,
                                          random_bytes, update_ok)} :
                \E update \in {DbCall("update_user_password", user_id, rp.ret)} :
                  /\ ResetClockBounded(now + update_delay)
                  /\ IF rp.ret
                     THEN \E mark_ok \in BOOLEAN :
                          \E mk \in {mark_token_used(tokens, token_data.token_id,
                                                     mark_ok)} :
                          \E mark \in {DbCall("mark_token_used",
                                              token_data.token_id, mk.ret)} :
                            ResetOutcome(rp.users, mk.tokens, "Success",
                                         "Password reset successfully.",
                                         <<select_1, select_2, update, mark>>,
                                         token_data.token_id, now + update_delay)
                     ELSE ResetOutcome(rp.users, tokens, "Error",
                                       "Failed to reset password.",
                                       <<select_1, select_2, update>>, 0,
                                       now + update_delay)

\* what a direct call of validate_reset_token leaves: its result or the
\* exception of its SELECT, and the one Data Store call it made
ValidateOutcome(ttable, token, select_ok) ==
    /\ tokens' = ttable
    /\ shown' = Shown("validate_reset_token",
                      IF select_ok THEN "return" ELSE "exception",
                      IF ~select_ok THEN "mysql.connector.Error"
                      ELSE IF validate_reset_token(tokens, token, now)
                      THEN "True" ELSE "False",
                      0, <<>>, <<>>)
    /\ db_calls' = <<DbCall("get_password_reset_token", upper(strip(token)),
                            select_ok)>>
    /\ UNCHANGED <<now, users, password_changes, tracker_vars, login_vars,
                   thread_vars, function_vars>>

call_validate_reset_token_consumes(token) ==
    \E select_ok \in BOOLEAN :
      IF select_ok /\ validate_reset_token(tokens, token, now)
      THEN ValidateOutcome(
               mark_token_used(
                   tokens,
                   get_password_reset_token(tokens, upper(strip(token))).token_id,
                   TRUE).tokens,
               token, select_ok)
      ELSE ValidateOutcome(tokens, token, select_ok)
\* validate_reset_token(db, token) called by any caller: one SELECT, no write
CallValidateResetToken(token) ==
    \E select_ok \in BOOLEAN : ValidateOutcome(tokens, token, select_ok)

NextReset ==
    \/ ResetTick
    \/ \E e \in EmailTexts, c \in CodeChoices, f \in SendCodeFaults :
          OnSendCode(e, c, f)
    \/ \E t \in TokenTexts, p \in NewPasswordTexts : OnResetPassword(t, p)
    \/ \E t \in TokenTexts : CallValidateResetToken(t)

SpecReset == Init /\ [][NextReset]_vars

(***************************************************************************)
(* The credential hasher called directly (utils/auth.py): hash_password on *)
(* a plaintext with the salt bytes it draws, then verify_password on what  *)
(* it returned.                                                            *)
(***************************************************************************)
PlainChars == {"a", "$"}
Plaintexts == UNION {[1..n -> PlainChars] : n \in 0..MaxPlainLen}
salt_bytes_0 == [i \in 1..16 |-> 0]
HasherSalts == {salt_bytes_0, salt_bytes_1, salt_bytes_2}

InitHasher ==
    /\ InitProgram
    /\ generator = generator_idle
    /\ \E p \in Plaintexts, rb \in HasherSalts :
          hasher = [hasher_idle EXCEPT !.stage = "input", !.password = p,
                                       !.random_bytes = rb]

hasher_frame ==
    UNCHANGED <<now, tracker_vars, users, login_vars, shown, db_calls,
                reset_vars, thread_vars, generator>>

CallHashPassword ==
    /\ hasher.stage = "input"
    /\ hasher' = [hasher EXCEPT
                     !.stage = "hashed",
                     !.stored = hash_password(hasher.password,
                                              hasher.random_bytes)]
    /\ hasher_frame

CallVerifyPassword(candidate) ==
    /\ hasher.stage = "hashed"
    /\ hasher' = [hasher EXCEPT
                     !.stage = "verified",
                     !.candidate = candidate,
                     !.ret = verify_password(hasher.stored, candidate)]
    /\ hasher_frame

NextHasher ==
    \/ CallHashPassword
    \/ \E candidate \in Plaintexts : CallVerifyPassword(candidate)

SpecHasher == InitHasher /\ [][NextHasher]_vars

(***************************************************************************)
(* The reset code generators called directly: generate_reset_code of       *)
(* utils/reset_helpers.py, the one of utils/auth.py, and create_reset_token *)
(* on the code the former returns.                                         *)
(***************************************************************************)
CodeLength == 6
ChoiceSamples == {1, 26, 27, 36}
ByteSamples == {0, 10, 171, 255}
GeneratorInputs ==
    [stage : {"input"}, module : {"utils.reset_helpers"}, length : {CodeLength},
     draws : [1..CodeLength -> ChoiceSamples], ret : {<<>>}]
    \cup
    [stage : {"input"}, module : {"utils.auth"}, length : {CodeLength},
     draws : [1..(CodeLength \div 2) -> ByteSamples], ret : {<<>>}]

InitGenerator ==
    /\ InitProgram
    /\ hasher = hasher_idle
    /\ generator \in GeneratorInputs

generator_frame ==
    UNCHANGED <<now, tracker_vars, users, login_vars, shown, db_calls,
                thread_vars, hasher>>

CallGenerateResetCode ==
    /\ generator.stage = "input"
    /\ generator.module = "utils.reset_helpers"
    /\ generator' = [generator EXCEPT
                        !.stage = "generated",
                        !.ret = generate_reset_code(generator.length,
                                                    generator.draws)]
    /\ UNCHANGED reset_vars
    /\ generator_frame

CallAuthGenerateResetCode ==
    /\ generator.stage = "input"
    /\ generator.module = "utils.auth"
    /\ generator' = [generator EXCEPT
                        !.stage = "generated",
                        !.ret = auth_generate_reset_code(generator.length,
                                                         generator.draws)]
    /\ UNCHANGED reset_vars
    /\ generator_frame

CallCreateResetToken(user_id, ok) ==
    /\ generator.stage = "input"
    /\ generator.module = "utils.reset_helpers"
    /\ \E r \in {create_reset_token(tokens, user_id, generator.draws, now, ok)} :
          /\ generator' = [generator EXCEPT
                              !.stage = "created",
                              !.ret = IF r.ret = None THEN <<>> ELSE r.ret]
          /\ tokens' = r.tokens
          /\ password_changes' =
                IF ok THEN Append(password_changes, 0) ELSE password_changes
    /\ generator_frame

NextGenerator ==
    \/ CallGenerateResetCode
    \/ CallAuthGenerateResetCode
    \/ \E user_id \in {1, 2}, ok \in BOOLEAN : CallCreateResetToken(user_id, ok)

SpecGenerator == InitGenerator /\ [][NextGenerator]_vars

(***************************************************************************)
(* Claims about the tracker, checked under SpecTracker.                    *)
(***************************************************************************)
FailedAttemptsOf(self, identity) == dict_get(self.failed_attempts, identity, 0)

\* C1: after exactly MAX_ATTEMPTS consecutive increment_failed_attempts calls
\* for an identity with no recordSuccess between them, is_locked_out is true
\* (evaluated before the lockout runs out); after only 1 or 2 it is false.
C1_LockedAfterMaxAttempts ==
    \A u \in Usernames :
        /\ streak[u] \in {1, 2} => ~is_locked_out(lockout_manager, u, now).ret
        /\ (streak[u] = 3 /\ now <= last_failure_at[u] + LOCKOUT_DURATION)
              => is_locked_out(lockout_manager, u, now).ret

C1_Witness ==
    \E u \in Usernames :
        /\ streak[u] = 3
        /\ last.op = "is_locked_out" /\ last.username = u /\ last.ret = TRUE

\* C6: one clear_lockout for an identity, from Clear, Accumulating or LockedOut,
\* leaves it with no failure count and no expiry, so is_locked_out is false,
\* and the identity is locked again only after MAX_ATTEMPTS further failures.
C6_ClearLockoutResets ==
    \A u \in Usernames :
        /\ (last.op = "clear_lockout" /\ last.username = u) =>
              /\ dict_get(lockout_manager.failed_attempts, u, 0) = 0
              /\ u \notin DOMAIN lockout_manager.lockout_expiry
              /\ ~is_locked_out(lockout_manager, u, now).ret
        /\ is_locked_out(lockout_manager, u, now).ret => streak[u] >= 3

C6_Witness ==
    /\ last.op = "clear_lockout" /\ last.before = "LockedOut"
    /\ \E u \in Usernames : u # last.username /\ streak[u] = 2

\* C7: is_locked_out on an identity locked out with expiry t, called at a time
\* > t, returns false and leaves the identity Clear (no count, no expiry), so
\* that get_remaining_lockout_minutes then returns 0; called at a time <= t it
\* returns true and changes nothing.
C7_LazyExpiry ==
    [][\A u \in Usernames :
          (/\ last'.op = "is_locked_out" /\ last'.username = u
           /\ u \in DOMAIN lockout_manager.lockout_expiry) =>
             IF now > lockout_manager.lockout_expiry[u]
             THEN /\ last'.ret = FALSE
                  /\ u \notin DOMAIN lockout_manager'.failed_attempts
                  /\ u \notin DOMAIN lockout_manager'.lockout_expiry
                  /\ get_remaining_lockout_minutes(lockout_manager', u, now') = 0
             ELSE /\ last'.ret = TRUE
                  /\ lockout_manager' = lockout_manager]_vars

C7_Witness ==
    /\ last.op = "is_locked_out" /\ last.before = "LockedOut" /\ last.ret = FALSE
    /\ TrackerState(lockout_manager, last.username) = "Clear"

\* C17: in every reachable tracker state each identity is in exactly one of
\* Clear (no count, no expiry), Accumulating(n) with 1 <= n < MAX_ATTEMPTS
\* and no expiry, or LockedOut(expiry); an expiry is recorded for an identity
\* if and only if its failure count has reached MAX_ATTEMPTS.
C17_TrackerStates ==
    \A u \in Usernames :
        LET n == FailedAttemptsOf(lockout_manager, u)
            counted == u \in DOMAIN lockout_manager.failed_attempts
            expiring == u \in DOMAIN lockout_manager.lockout_expiry
            Clear == ~counted /\ ~expiring
            Accumulating == counted /\ 1 <= n /\ n < MAX_ATTEMPTS /\ ~expiring
            LockedOut == counted /\ n >= MAX_ATTEMPTS /\ expiring
        IN  /\ Clear \/ Accumulating \/ LockedOut
            /\ ~(Clear /\ Accumulating) /\ ~(Clear /\ LockedOut)
            /\ ~(Accumulating /\ LockedOut)
            /\ expiring <=> n >= MAX_ATTEMPTS

C17_Witness ==
    /\ last.op = "is_locked_out" /\ last.ret = FALSE /\ last.before = "LockedOut"
    /\ TrackerState(lockout_manager, last.username) = "Clear"
    /\ \E u \in Usernames :
          /\ TrackerState(lockout_manager, u) = "LockedOut"
          /\ FailedAttemptsOf(lockout_manager, u) > MAX_ATTEMPTS

\* floor(a / b) for b > 0
floor_div(a, b) == a \div b

\* C19: get_remaining_lockout_minutes(X) returns 0 when X has no lockout
\* expiry and otherwise max(0, floor((expiry - now) / 60)); the result is an
\* integer in 0..LOCKOUT_DURATION/60, and the call leaves the tracker as it
\* was.
C19_RemainingLockoutMinutes ==
    [][\A u \in Usernames :
          (last'.op = "get_remaining_lockout_minutes" /\ last'.username = u) =>
             /\ last'.ret =
                   IF u \notin DOMAIN lockout_manager.lockout_expiry THEN 0
                   ELSE max(0, floor_div(lockout_manager.lockout_expiry[u] - now,
                                         60))
             /\ last'.ret \in 0..(LOCKOUT_DURATION \div 60)
             /\ lockout_manager' = lockout_manager
             /\ now' = now]_vars

\* asked for a locked-out identity in the middle of a minute, and asked after
\* the expiry passed with the record still there
C19_Witness ==
    /\ last.op = "get_remaining_lockout_minutes"
    /\ last.username \in DOMAIN lockout_manager.lockout_expiry
    /\ lockout_manager.lockout_expiry[last.username] < now
    /\ last.ret = 0
    /\ \E u \in Usernames :
          /\ u \in DOMAIN lockout_manager.lockout_expiry
          /\ (lockout_manager.lockout_expiry[u] - now) % 60 # 0
          /\ get_remaining_lockout_minutes(lockout_manager, u, now) = 2

TrackerCalls ==
    {"increment_failed_attempts", "clear_lockout", "is_locked_out",
     "get_remaining_lockout_minutes"}

\* C20: a call of increment_failed_attempts, clear_lockout, is_locked_out or
\* get_remaining_lockout_minutes for identity X leaves the failure count and
\* the lockout expiry of every other identity Y as they were.
C20_IdentitiesIndependent ==
    [][\A x \in Usernames, y \in Usernames :
          (last'.op \in TrackerCalls /\ last'.username = x /\ y # x) =>
             /\ y \in DOMAIN lockout_manager'.failed_attempts
                   <=> y \in DOMAIN lockout_manager.failed_attempts
             /\ FailedAttemptsOf(lockout_manager', y)
                   = FailedAttemptsOf(lockout_manager, y)
             /\ y \in DOMAIN lockout_manager'.lockout_expiry
                   <=> y \in DOMAIN lockout_manager.lockout_expiry
             /\ dict_get(lockout_manager'.lockout_expiry, y, 0)
                   = dict_get(lockout_manager.lockout_expiry, y, 0)]_vars

\* X was forgotten by a call while Y was locked out, and Y still is
C20_Witness ==
    /\ last.op \in {"clear_lockout", "is_locked_out"}
    /\ last.before = "LockedOut"
    /\ TrackerState(lockout_manager, last.username) = "Clear"
    /\ \E y \in Usernames :
          /\ y # last.username
          /\ FailedAttemptsOf(lockout_manager, y) = MAX_ATTEMPTS
          /\ is_locked_out(lockout_manager, y, now).ret

\* C23: failed attempts below MAX_ATTEMPTS do not decay: an identity in
\* Accumulating(n) stays there while time passes and is_locked_out or
\* get_remaining_lockout_minutes is called, until clear_lockout makes it Clear
\* or a further failure makes it Accumulating(n + 1) or LockedOut; an identity
\* becomes Clear without clear_lockout only from LockedOut, after the expiry.
C23_AccumulatingDoesNotDecay ==
    [][\A u \in Usernames :
          LET n == FailedAttemptsOf(lockout_manager, u)
              by_u == last'.username = u
          IN  /\ TrackerState(lockout_manager, u) = "Accumulating" =>
                   IF last'.op = "clear_lockout" /\ by_u
                   THEN TrackerState(lockout_manager', u) = "Clear"
                   ELSE IF last'.op = "increment_failed_attempts" /\ by_u
                   THEN /\ FailedAttemptsOf(lockout_manager', u) = n + 1
                        /\ TrackerState(lockout_manager', u) =
                              IF n + 1 >= MAX_ATTEMPTS
                              THEN "LockedOut" ELSE "Accumulating"
                   ELSE /\ FailedAttemptsOf(lockout_manager', u) = n
                        /\ TrackerState(lockout_manager', u) = "Accumulating"
              /\ (/\ TrackerState(lockout_manager, u) # "Clear"
                  /\ TrackerState(lockout_manager', u) = "Clear"
                  /\ ~(last'.op = "clear_lockout" /\ by_u)) =>
                    /\ TrackerState(lockout_manager, u) = "LockedOut"
                    /\ now > lockout_manager.lockout_expiry[u]
                    /\ last'.op = "is_locked_out" /\ by_u]_vars

\* two failures, more than LOCKOUT_DURATION ago, and is_locked_out just asked
C23_Witness ==
    /\ last.op = "is_locked_out" /\ last.before = "Accumulating"
    /\ ~last.ret
    /\ FailedAttemptsOf(lockout_manager, last.username) = 2
    /\ now - last_failure_at[last.username] > LOCKOUT_DURATION

(***************************************************************************)
(* Claims about the login screen, checked under SpecLogin.                 *)
(***************************************************************************)
LoginIdentities == {lower(strip(tu)) : tu \in UsernameTexts}

\* A step in which _on_login_clicked ran past its _is_logging_in guard: the
\* clock moves by no more than the time between two of its reads, and shown'
\* holds the handler's name and its input.
AcceptedClick ==
    /\ ~is_logging_in
    /\ now' - now \in 0..MaxElapsed
    /\ shown'.handler = "_on_login_clicked"

InvalidShape(identity, password) ==
    \/ identity = <<>>
    \/ password = <<>>
    \/ ~(\E i \in DOMAIN identity : identity[i] = "@")
    \/ ~(\E i \in DOMAIN identity : identity[i] = ".")
    \/ Len(password) < 8

\* C2: once an identity is locked out, every login click for it accepted
\* while the lockout has not expired is answered "Locked Out", also with the
\* correct password: no Data Store call, no attempt started, no login success,
\* and the failure count and the expiry stay as they are.
C2_LockoutTakesPrecedence ==
    [][\A u \in LoginIdentities :
          (u \in DOMAIN lockout_manager.lockout_expiry
              /\ now <= lockout_manager.lockout_expiry[u]) =>
            /\ (AcceptedClick /\ shown'.username = u
                    /\ ~InvalidShape(u, shown'.password)) =>
                  /\ shown'.box = "Locked Out"
                  /\ db_calls' = <<>>
                  /\ ~is_logging_in' /\ ~timer_active'
            /\ now' <= lockout_manager.lockout_expiry[u] =>
                  /\ u \in DOMAIN lockout_manager'.lockout_expiry
                  /\ lockout_manager'.lockout_expiry[u]
                        = lockout_manager.lockout_expiry[u]
                  /\ dict_get(lockout_manager'.failed_attempts, u, 0)
                        = dict_get(lockout_manager.failed_attempts, u, 0)
                  /\ ~(shown'.box = "login_successful" /\ shown'.username = u)]_vars

C2_Witness ==
    /\ shown.handler = "_on_login_clicked" /\ shown.box = "Locked Out"
    /\ shown.username = user_a /\ shown.password = password_1
    /\ authenticate_user(users, user_a, password_1).success
    /\ dict_get(lockout_manager.failed_attempts, user_a, 0) = 3
    /\ now <= lockout_manager.lockout_expiry[user_a]

\* C10: a login click whose input has an invalid shape (empty identity or
\* password, identity without "@" or ".", password shorter than 8) is answered
\* with a validation error, makes no Data Store call, starts no attempt and
\* leaves every identity's lockout state unchanged.
C10_InvalidInputNoSideEffects ==
    [][(AcceptedClick /\ InvalidShape(shown'.username, shown'.password)) =>
          /\ shown'.box = "Validation Error"
          /\ db_calls' = <<>>
          /\ lockout_manager' = lockout_manager
          /\ users' = users
          /\ ~is_logging_in' /\ ~timer_active']_vars

C10_Witness ==
    /\ shown.handler = "_on_login_clicked" /\ shown.box = "Validation Error"
    /\ shown.username = user_a /\ shown.password = password_short
    /\ db_calls = <<>>
    /\ TrackerState(lockout_manager, user_a) = "Accumulating"

\* A step in which _complete_login_attempt ran and the credential lookup
\* returned: the timer has fired and the SELECT did not raise.
CompletedLookup ==
    /\ timer_active /\ ~timer_active'
    /\ db_calls'[1].ok

NotFound(identity) == get_user_by_username(users, identity) = None
InvalidCredentials(identity, password) ==
    /\ ~NotFound(identity)
    /\ ~verify_password(get_user_by_username(users, identity).password_hash,
                        password)

\* C11: every failed authentication of a well-formed, not locked out login
\* attempt raises the failure count of the submitted identity by exactly
\* one, for an unknown identity as for a wrong password; both cases get the
\* same answer and the same tracker update, that of
\* increment_failed_attempts.
C11_FailureKindsTrackedAlike ==
    [][(CompletedLookup
          /\ (NotFound(pending_username)
                \/ InvalidCredentials(pending_username, pending_password))) =>
          /\ FailedAttemptsOf(lockout_manager', pending_username)
                = FailedAttemptsOf(lockout_manager, pending_username) + 1
          /\ lockout_manager' = increment_failed_attempts(
                                    lockout_manager, pending_username, now)
          /\ shown'.box =
                IF FailedAttemptsOf(lockout_manager', pending_username)
                      >= MAX_ATTEMPTS
                THEN "Locked Out" ELSE "Login Failed"
          /\ shown'.text =
                IF shown'.box = "Locked Out"
                THEN "Too many failed attempts." ELSE "Invalid credentials."
          /\ modal'.handler = "_complete_login_attempt"
          /\ is_logging_in']_vars

C11_Witness ==
    /\ shown.handler = "_complete_login_attempt" /\ shown.box = "Login Failed"
    /\ NotFound(shown.username)
    /\ FailedAttemptsOf(lockout_manager, shown.username) = 2
    /\ \E u \in LoginIdentities :
          /\ ~NotFound(u)
          /\ FailedAttemptsOf(lockout_manager, u) = 2

\* the text of the username field, upper-cased and padded
user_a_typed == <<chr_a0, "A", "@", "B", ".", "c", "\r">>

\* C21: lockout state is keyed by the identity lower(strip(text)) of the text
\* typed: a click is judged and an attempt started under that key, a failed
\* attempt raises the count of that key by one, every key of the tracker is
\* normalized, and a click with any casing or padding of a locked-out identity
\* is answered "Locked Out".
C21_KeyedByNormalizedIdentity ==
    [][/\ AcceptedClick =>
            /\ shown'.username = lower(strip(input_username'))
            /\ timer_active' => pending_username' = lower(strip(input_username'))
            /\ (/\ ~InvalidShape(shown'.username, shown'.password)
                /\ is_locked_out(lockout_manager,
                                 lower(strip(input_username')), now).ret)
                  => shown'.box = "Locked Out" /\ ~timer_active'
       /\ (CompletedLookup /\ ~authenticate_user(
                                  users, pending_username, pending_password).success)
            => /\ pending_username = lower(strip(input_username))
               /\ FailedAttemptsOf(lockout_manager', lower(strip(input_username)))
                    = FailedAttemptsOf(lockout_manager,
                                       lower(strip(input_username))) + 1
               /\ FailedAttemptsOf(lockout_manager', pending_username)
                     >= MAX_ATTEMPTS =>
                    \A tu \in UsernameTexts :
                       lower(strip(tu)) = pending_username =>
                          is_locked_out(lockout_manager', lower(strip(tu)),
                                        now').ret
       /\ \A k \in DOMAIN lockout_manager'.failed_attempts
                     \cup DOMAIN lockout_manager'.lockout_expiry :
             k = lower(strip(k))]_vars

\* the third failure, typed in upper case with blanks around it, locked a@b.c
C21_Witness ==
    /\ shown.handler = "_complete_login_attempt" /\ shown.box = "Locked Out"
    /\ input_username = user_a_typed
    /\ shown.username = user_a
    /\ FailedAttemptsOf(lockout_manager, user_a) = MAX_ATTEMPTS
    /\ is_locked_out(lockout_manager, lower(strip(user_a)), now).ret

TrackedIdentities(self) ==
    DOMAIN self.failed_attempts \cup DOMAIN self.lockout_expiry

\* C25: on the login screen the failure count of an identity is at most
\* MAX_ATTEMPTS: a failure is recorded only for an identity that has no
\* lockout expiry, a "Login Failed" message shows 1 or 2 attempts left, and
\* an expiry, once set, is not changed by later attempts.
C25_CountAtMostMaxAttempts ==
    [][/\ \A u \in TrackedIdentities(lockout_manager)
                      \cup TrackedIdentities(lockout_manager') :
             /\ FailedAttemptsOf(lockout_manager', u) <= MAX_ATTEMPTS
             /\ FailedAttemptsOf(lockout_manager', u)
                   > FailedAttemptsOf(lockout_manager, u) =>
                   u \notin DOMAIN lockout_manager.lockout_expiry
             /\ (u \in DOMAIN lockout_manager.lockout_expiry
                    /\ u \in DOMAIN lockout_manager'.lockout_expiry) =>
                   lockout_manager'.lockout_expiry[u]
                      = lockout_manager.lockout_expiry[u]
       /\ shown'.box = "Login Failed" => shown'.n \in {1, 2}]_vars

\* one attempt left for an identity, while another one is locked out with
\* MAX_ATTEMPTS failures and its last click was turned away
C25_Witness ==
    /\ shown.handler = "_complete_login_attempt"
    /\ shown.box = "Login Failed" /\ shown.n = 1
    /\ \E u \in TrackedIdentities(lockout_manager) :
          /\ u # shown.username
          /\ FailedAttemptsOf(lockout_manager, u) = MAX_ATTEMPTS
          /\ is_locked_out(lockout_manager, u, now).ret

\* A step in which the timer fired and _complete_login_attempt ran
TimerFired == timer_active /\ ~timer_active'

\* C26: at most one login attempt is in flight: while one is pending a login
\* click changes nothing and the pending identity and password stay, the
\* timer is armed only by a click accepted while no attempt is pending, and
\* its callback makes exactly one authenticate call and exactly one tracker
\* update, clear_lockout on success and increment_failed_attempts on failure.
C26_OneAttemptInFlight ==
    [][/\ is_logging_in =>
             /\ pending_username' = pending_username
             /\ pending_password' = pending_password
             /\ shown'.handler = "_on_login_clicked" => shown' = shown
             /\ ~TimerFired =>
                   lockout_manager' = lockout_manager /\ db_calls' = db_calls
       /\ (~timer_active /\ timer_active') => ~is_logging_in /\ is_logging_in'
       /\ TimerFired =>
             /\ is_logging_in
             /\ Len(db_calls') = 1
             /\ db_calls'[1].call = "get_user_by_username"
             /\ db_calls'[1].arg = pending_username
             /\ lockout_manager' =
                   IF authenticate_user(users, pending_username,
                                        pending_password).success
                   THEN clear_lockout(lockout_manager, pending_username)
                   ELSE increment_failed_attempts(lockout_manager,
                                                  pending_username, now)]_vars

(***************************************************************************)
(* Claims about the reset protocol, under SpecReset.                       *)
(***************************************************************************)
Expired(record, time) == record.expires_at < time

\* the reset submissions recorded in the Data Store calls of the last handler
ResetSubmission == shown.handler = "on_reset_password"
CallsOf(name) == {i \in DOMAIN db_calls : db_calls[i].call = name}

\* C3: each reset token authorises at most one successful password change:
\* once a password change made with a token has succeeded, no later
\* submission of that token changes a password, Data Store write failures
\* included.  Violated: a failed mark_token_used after a successful password
\* write goes unnoticed and leaves the token valid.
C3_AtMostOneChangePerToken ==
    \A i \in DOMAIN password_changes : password_changes[i] <= 1

\* C4: a token is never marked used before the password write has
\* succeeded: each mark_token_used call is preceded, within the same reset
\* submission, by an update_user_password call for that token's user that
\* returned success.
C4_MarkedOnlyAfterPasswordWrite ==
    \A i \in CallsOf("mark_token_used") :
        \E j \in CallsOf("update_user_password") :
            /\ j < i
            /\ db_calls[j].ok
            /\ db_calls[j].arg = tokens[db_calls[i].arg].user_id

C4_Witness ==
    /\ ResetSubmission
    /\ \E i \in CallsOf("mark_token_used") :
          /\ db_calls[i].ok
          /\ tokens[db_calls[i].arg].is_used

\* a step of on_reset_password in which the password write failed
FailedPasswordWrite ==
    /\ now' - now \in ResetDelays
    /\ shown'.handler = "on_reset_password"
    /\ \E i \in DOMAIN db_calls' :
          /\ db_calls'[i].call = "update_user_password"
          /\ ~db_calls'[i].ok

\* C5: if the password write fails during a reset submission, the token
\* record is left unchanged (is_used stays false) and the stored password
\* hash is unchanged, so resubmitting the same token before it expires
\* validates again.
C5_FailedWriteLeavesTokenUsable ==
    [][FailedPasswordWrite =>
          /\ tokens' = tokens
          /\ users' = users
          /\ shown'.text = "Failed to reset password."
          /\ \A t \in TokenTexts :
                upper(strip(t)) = db_calls'[1].arg =>
                    /\ ~get_password_reset_token(tokens', t).is_used
                    /\ \A time \in {now, get_password_reset_token(
                                               tokens', t).expires_at} :
                          validate_reset_token(tokens', t, time)]_vars

C5_Witness ==
    /\ ResetSubmission
    /\ shown.text = "Failed to reset password."
    /\ \E i \in CallsOf("update_user_password") : ~db_calls[i].ok
    /\ \E t \in TokenTexts : validate_reset_token(tokens, t, now)

\* the record a lookup of the code finds: the first created one carrying it
FirstRecordWith(code) ==
    {i \in DOMAIN tokens :
        /\ tokens[i].token = code
        /\ \A j \in 1..(i - 1) : tokens[j].token # code}

\* C8: validate_reset_token(s) is true if and only if a record whose code
\* equals uppercase(s) exists, is unused and has not expired, and the result
\* is the same for every casing of s.  Stated for the texts s without
\* surrounding whitespace, on which strip() changes nothing and the code the
\* lookup is made with is uppercase(s).  Violated: of two records with one
\* code the older answers the lookup, and a fresh record behind a used or
\* expired one is rejected.
C8_ValidateIffSomeRecordUsable ==
    \A s \in TokenTexts :
        s = strip(s) =>
            /\ validate_reset_token(tokens, s, now) =
                  (\E i \in DOMAIN tokens :
                      /\ tokens[i].token = upper(s)
                      /\ ~tokens[i].is_used
                      /\ ~Expired(tokens[i], now))
            /\ validate_reset_token(tokens, lower(s), now) =
                  validate_reset_token(tokens, s, now)
            /\ validate_reset_token(tokens, upper(s), now) =
                  validate_reset_token(tokens, s, now)

\* what does hold, surrounding whitespace included: the answer is that of the
\* first created record carrying the code uppercase(strip(s)), and it is the
\* same for every casing of s
ValidateIffFirstRecordUsable ==
    \A s \in TokenTexts :
        /\ validate_reset_token(tokens, s, now) =
              (\E i \in FirstRecordWith(upper(strip(s))) :
                  ~tokens[i].is_used /\ ~Expired(tokens[i], now))
        /\ validate_reset_token(tokens, lower(s), now) =
              validate_reset_token(tokens, s, now)
        /\ validate_reset_token(tokens, upper(s), now) =
              validate_reset_token(tokens, s, now)

\* C9: after create_reset_token returned code C, validating lowercase(C) is
\* true while that token is unexpired and unconsumed, and once the token has
\* been marked used validating C is false in every later state.  Violated:
\* a later token that draws the code of an older record is shadowed by it.
C9_CreatedTokenValidatesUntilConsumed ==
    \A i \in DOMAIN tokens :
        /\ (~tokens[i].is_used /\ ~Expired(tokens[i], now)) =>
              validate_reset_token(tokens, lower(tokens[i].token), now)
        /\ tokens[i].is_used =>
              ~validate_reset_token(tokens, tokens[i].token, now)

\* a step of on_send_code that reached create_reset_token
CreateTokenStep ==
    /\ now' = now
    /\ shown'.handler = "on_send_code"
    /\ Len(db_calls') = 2
    /\ db_calls'[2].call = "create_password_reset_token"

\* C15: create_reset_token(user_id), when the store write succeeds, adds
\* exactly one token record with that user_id, an uppercase code,
\* is_used = false and expires_at = now + 5 minutes, and returns the code;
\* when the store write fails it returns None and adds no record.
C15_CreateTokenRecord ==
    [][CreateTokenStep =>
          IF db_calls'[2].ok
          THEN /\ Len(tokens') = Len(tokens) + 1
               /\ SubSeq(tokens', 1, Len(tokens)) = tokens
               /\ LET record == tokens'[Len(tokens')]
                  IN  /\ record.user_id = db_calls'[2].arg
                      /\ record.token = upper(record.token)
                      /\ record.is_used = FALSE
                      /\ record.expires_at = now + 5 * 60
                      /\ \E c \in CodeChoices :
                            create_reset_token(tokens, record.user_id, c, now,
                                               TRUE)
                               = [ret |-> record.token, tokens |-> tokens']
               /\ shown'.text # "Failed to create reset token."
          ELSE /\ tokens' = tokens
               /\ \A c \in CodeChoices :
                     create_reset_token(tokens, db_calls'[2].arg, c, now, FALSE)
                        = [ret |-> None, tokens |-> tokens]
               /\ shown'.text = "Failed to create reset token."]_vars

C15_Witness ==
    /\ shown.handler = "on_send_code"
    /\ shown.text = "Failed to create reset token."
    /\ Len(tokens) = 1
    /\ tokens[1].user_id = 2 /\ tokens[1].expires_at = 600

\* a step of on_reset_password in which the password write was applied
PasswordWriteApplied ==
    /\ now' - now \in ResetDelays
    /\ shown'.handler = "on_reset_password"
    /\ \E i \in DOMAIN db_calls' :
          /\ db_calls'[i].call = "update_user_password"
          /\ db_calls'[i].ok

\* What on_reset_password does ensure: in every reset submission that changes
\* a password, the time at which the token was validated is not later than
\* the expires_at of that token, which was unused; the password write follows
\* in the same submission without a second look at the clock.
ValidatedBeforeExpiry ==
    [][PasswordWriteApplied =>
          \E i \in FirstRecordWith(db_calls'[1].arg) :
              /\ ~tokens[i].is_used
              /\ now <= tokens[i].expires_at
              /\ db_calls'[3].arg = tokens[i].user_id
              /\ password_changes'[i] >= 1]_vars

\* C18: no password change authorised by a reset token is committed after
\* that token's expires_at: in every reset submission the time at which the
\* password write is applied is not later than the expires_at of the token
\* that was validated.
C18_WrittenBeforeExpiry ==
    [][PasswordWriteApplied =>
          \E i \in FirstRecordWith(db_calls'[1].arg) :
              now' <= tokens[i].expires_at]_vars

\* A step in which validate_reset_token was called and returned
ValidateTokenCall ==
    /\ shown'.handler = "validate_reset_token"
    /\ shown'.box = "return"
    /\ now' = now

\* C22: validate_reset_token has no side effects: whatever it returns, every
\* token record (is_used and expires_at included) and every user record is
\* as before, so the same call at the same time gives the same result again.
C22_ValidateHasNoSideEffects ==
    [][ValidateTokenCall =>
          /\ tokens' = tokens
          /\ users' = users
          /\ password_changes' = password_changes
          /\ validate_reset_token(tokens', db_calls'[1].arg, now')
                <=> shown'.text = "True"]_vars

\* an unused token was validated with result True and is still unused, next to
\* a used one that was validated with result False
C22_Witness ==
    /\ shown.handler = "validate_reset_token" /\ shown.text = "True"
    /\ Len(tokens) = 2
    /\ \E i \in FirstRecordWith(db_calls[1].arg) :
          /\ ~tokens[i].is_used
          /\ \E j \in DOMAIN tokens : j # i /\ tokens[j].is_used

\* C24: in a reset submission that replaces a password hash, the user whose
\* hash is replaced is the user_id of the record the lookup of the submitted
\* code returns, that record passed validation, and no other user's record
\* changes, whatever other token records are stored.
C24_ReplacedUserIsTokenUser ==
    [][PasswordWriteApplied =>
          \E i \in FirstRecordWith(db_calls'[1].arg) :
              /\ validate_reset_token(tokens, tokens[i].token, now)
              /\ \A k \in DOMAIN users :
                    IF users[k].user_id = tokens[i].user_id
                    THEN \E new_password \in NewPasswordTexts,
                            random_bytes \in SaltDraws :
                            users'[k] =
                               [users[k] EXCEPT !.password_hash =
                                   hash_password(new_password, random_bytes)]
                    ELSE users'[k] = users[k]]_vars

\* two records carry the submitted code, for different users; the hash of the
\* first record's user was replaced, the other user's was not
C24_Witness ==
    /\ shown.handler = "on_reset_password"
    /\ shown.text = "Password reset successfully."
    /\ Len(tokens) = 2
    /\ tokens[1].token = tokens[2].token
    /\ tokens[1].user_id = 2 /\ tokens[2].user_id = 1
    /\ password_changes = <<1, 0>>
    /\ verify_password(users[2].password_hash, password_1)
    /\ users[1].password_hash = hash_password(password_1, salt_bytes_1)

KnownPasswords == PasswordTexts \cup NewPasswordTexts
Authenticates(table, identity, password) ==
    authenticate_user(table, identity, password).success

\* C27: after reset_password(user_id, p') returned True, authenticating that
\* user's identity succeeds with p' and fails with every other password, the
\* previous one included; the users table changes in no other step, so this
\* lasts until the next successful password change; after reset_password
\* returned False every identity authenticates with the passwords it did
\* before.
C27_NewPasswordAuthenticates ==
    [][/\ PasswordWriteApplied =>
             \A k \in DOMAIN users :
                users[k].user_id = db_calls'[3].arg =>
                   \E new_password \in NewPasswordTexts :
                      /\ Authenticates(users', users[k].email, new_password)
                      /\ \A password \in KnownPasswords \ {new_password} :
                            ~Authenticates(users', users[k].email, password)
       /\ ~PasswordWriteApplied => users' = users
       /\ FailedPasswordWrite =>
             \A k \in DOMAIN users, password \in KnownPasswords :
                Authenticates(users', users[k].email, password)
                   <=> Authenticates(users, users[k].email, password)]_vars

\* m@b.c got password_1 in place of password_2 by a reset, and a later reset
\* whose password write failed left it so
C27_Witness ==
    /\ shown.handler = "on_reset_password"
    /\ shown.text = "Failed to reset password."
    /\ Authenticates(users, user_m, password_1)
    /\ ~Authenticates(users, user_m, password_2)
    /\ Authenticates(users, user_a, password_1)

\* A step of on_reset_password that reported success
SuccessfulReset ==
    /\ now' - now \in ResetDelays
    /\ shown'.handler = "on_reset_password"
    /\ shown'.text = "Password reset successfully."

\* C28: token records are independent of one another: create_reset_token
\* leaves every existing record unchanged, and a successful reset changes no
\* record but the submitted one, so every other unused, unexpired token
\* issued to the same user validates afterwards.
C28_TokenRecordsIndependent ==
    [][/\ CreateTokenStep =>
             \A j \in DOMAIN tokens : tokens'[j] = tokens[j]
       /\ SuccessfulReset =>
             \A i \in FirstRecordWith(db_calls'[1].arg), j \in DOMAIN tokens :
                j # i =>
                   /\ tokens'[j] = tokens[j]
                   /\ (/\ tokens[j].user_id = tokens[i].user_id
                       /\ ~tokens[j].is_used
                       /\ ~Expired(tokens[j], now')) =>
                         validate_reset_token(tokens', tokens[j].token, now')]_vars

(***************************************************************************)
(* Claims about the tracker called from several threads, under SpecThreads. *)
(***************************************************************************)
\* C12: when several threads call increment_failed_attempts concurrently
\* for one identity, no update of the counter is lost: once k such calls
\* have returned (no clear_lockout, no expiry in between, none still
\* running) the counter is k, and the identity is locked out when
\* k >= MAX_ATTEMPTS.  Violated: two threads read the same count at line 24
\* and both store that count plus one at line 25.
C12_NoLostUpdate ==
    (\A t \in Threads : thread_pc[t] = "idle") =>
        \A u \in Usernames :
            /\ FailedAttemptsOf(lockout_manager, u) = calls_completed[u]
            /\ calls_completed[u] >= MAX_ATTEMPTS =>
                  is_locked_out(lockout_manager, u, now).ret

(***************************************************************************)
(* Claims about the login screen with a running event loop, under          *)
(* SpecLoginLive.                                                          *)
(***************************************************************************)
\* C13: every login attempt that has been started (controls disabled, timer
\* armed) eventually completes and returns the login screen to its idle
\* state (_is_logging_in false), also when the credential lookup fails.
\* Violated: the SELECT raising leaves _complete_login_attempt before
\* _set_login_state(False), and nothing else clears _is_logging_in.
C13_AttemptReturnsToIdle ==
    (is_logging_in /\ timer_active) ~> ~is_logging_in

(***************************************************************************)
(* Claims about the credential hasher, under SpecHasher.                   *)
(***************************************************************************)
\* C14: for every plaintext p and every salt hash_password draws,
\* verify_password(hash_password(p), p) is true, also for a plaintext that
\* contains the "$" delimiter.
C14_VerifyAcceptsOwnHash ==
    (hasher.stage = "verified" /\ hasher.candidate = hasher.password) =>
        hasher.ret = TRUE

C14_Witness ==
    /\ hasher.stage = "verified"
    /\ hasher.candidate = hasher.password
    /\ \E i \in DOMAIN hasher.password : hasher.password[i] = "$"
    /\ Len(split(hasher.stored, "$")) = 2
    /\ hasher.ret = TRUE

(***************************************************************************)
(* Claims about the reset code generators, under SpecGenerator.            *)
(***************************************************************************)
WellFormedCode(code) ==
    /\ Len(code) = 6
    /\ \A i \in DOMAIN code :
          code[i] \in Range(ascii_uppercase) \cup Range(digits)

\* C16: generate_reset_code(6) always returns a string of exactly 6
\* characters, each of the 36 symbols A-Z, 0-9 and never lower-case, and
\* every reset code create_reset_token hands out has this form.  Violated:
\* generate_reset_code of utils/auth.py returns lower-case hex digits.
C16_CodesAreUppercaseAlphanumeric ==
    /\ generator.stage = "generated" => WellFormedCode(generator.ret)
    /\ (generator.stage = "created" /\ generator.ret # <<>>) =>
          /\ WellFormedCode(generator.ret)
          /\ tokens[Len(tokens)].token = generator.ret

====
